---- MODULE Spec2Model ----
(***************************************************************************)
(* Tel Aviv bus lanes: schedule reconciliation (app.js), the schedule      *)
(* table (bus_lane_hours.js) and the community sign reports                *)
(* (community_reports.js).                                                 *)
(*                                                                         *)
(* Text.  A JavaScript string is a sequence of characters; a character is  *)
(* a one-letter TLA+ string.  Hebrew letters are transliterated:           *)
(*   a b g d h w z x T y k K l m M n N s e p P c C q r S t                 *)
(*   = alef bet gimel dalet he vav zayin het tet yod kaf final-kaf lamed   *)
(*     mem final-mem nun final-nun samekh ayin pe final-pe tsadi           *)
(*     final-tsadi qof resh shin tav.                                      *)
(* The four quote characters of normalizeStreet are "dq" (double quote),   *)
(* "ap" (apostrophe), "ge" (geresh) and "bt" (backtick); "tab" is a        *)
(* whitespace character other than the space.                              *)
(*                                                                         *)
(* Time.  A decimal hour (14.5 = 14:30) is kept in minutes (870), so the   *)
(* comparisons of the code are comparisons of integers.                    *)
(* Scores of matchScore are kept in tenths (0.3 = 3, 1 = 10).              *)
(***************************************************************************)
EXTENDS Integers, Sequences, FiniteSets, TLC

\* ------------------------------------------------------------------------
\* JavaScript values
\* ------------------------------------------------------------------------

\* null / undefined where a string is expected (a missing attribute)
NullStr == <<"#null">>

\* null where an object is expected (schedule: null, signOverride: null)
NullObj == [isNull |-> TRUE]

\* obj[k] is set and truthy, for a list- or boolean-valued field k
HasField(obj, k) == k \in DOMAIN obj

\* !name : null, undefined and '' are falsy
StrFalsy(s) == s = NullStr \/ s = <<>>

\* s.includes(t)
Includes(s, t) ==
    \E i \in 0..(Len(s) - Len(t)) : SubSeq(s, i + 1, i + Len(t)) = t

\* ------------------------------------------------------------------------
\* normalizeStreet  (app.js 82-92)
\* ------------------------------------------------------------------------

\* \s of the regular expressions and of String.prototype.trim
Whitespace == {" ", "tab"}

\* ["'׳`] of line 88
QuoteChars == {"dq", "ap", "ge", "bt"}

\* the alternatives of the prefix group of line 86:
\*   rxwb | rx['ge]? | Sdrwt | Sd['ge]? | drK | Tyylt
PrefixWords ==
    { <<"r","x","w","b">>,
      <<"r","x">>, <<"r","x","ap">>, <<"r","x","ge">>,
      <<"S","d","r","w","t">>,
      <<"S","d">>, <<"S","d","ap">>, <<"S","d","ge">>,
      <<"d","r","K">>,
      <<"T","y","y","l","t">> }

\* String.prototype.trimStart and trimEnd
RECURSIVE trimStart(_)
trimStart(s) ==
    IF s = <<>> THEN s
    ELSE IF Head(s) \in Whitespace THEN trimStart(Tail(s))
    ELSE s

RECURSIVE trimEnd(_)
trimEnd(s) ==
    IF s = <<>> THEN s
    ELSE IF s[Len(s)] \in Whitespace THEN trimEnd(SubSeq(s, 1, Len(s) - 1))
    ELSE s

\* String.prototype.trim
trim(s) == trimEnd(trimStart(s))

\* the characters of n before its first whitespace character
RECURSIVE firstWord(_)
firstWord(n) ==
    IF n = <<>> THEN <<>>
    ELSE IF Head(n) \in Whitespace THEN <<>>
    ELSE <<Head(n)>> \o firstWord(Tail(n))

\* n.replace(/^(prefix)\s+/g, '') : the match is anchored at the start, so
\* at most one prefix is removed.  No alternative holds a whitespace
\* character and \s+ must follow it, so the group matches exactly the
\* characters before the first whitespace of n, and \s+ all the whitespace
\* that follows them.
stripPrefix(n) ==
    LET word == firstWord(n)
    IN  IF Len(word) < Len(n) /\ word \in PrefixWords
        THEN trimStart(SubSeq(n, Len(word) + 1, Len(n)))
        ELSE n

\* n.replace(/["'׳`]/g, '')
stripQuotes(n) == SelectSeq(n, LAMBDA c : c \notin QuoteChars)

\* n.replace(/\s+/g, ' ') : every maximal run of whitespace becomes one space
RECURSIVE collapseFrom(_, _)
collapseFrom(n, i) ==
    IF i > Len(n) THEN <<>>
    ELSE IF n[i] \notin Whitespace THEN <<n[i]>> \o collapseFrom(n, i + 1)
    ELSE IF i > 1 /\ n[i - 1] \in Whitespace THEN collapseFrom(n, i + 1)
    ELSE <<" ">> \o collapseFrom(n, i + 1)

collapseSpaces(n) == collapseFrom(n, 1)

normalizeStreet(name) ==
    IF StrFalsy(name) THEN <<>>
    ELSE trim(collapseSpaces(stripQuotes(stripPrefix(trim(name)))))

\* ------------------------------------------------------------------------
\* STREET_ALIASES  (app.js 99-118), as the set of its (key, value) pairs
\* ------------------------------------------------------------------------

STREET_ALIASES ==
    {
      << <<"b","g","y","N"," ","m","n","x","M">>,
         <<"b","g","y","N">> >>,
      << <<"n","m","y","r"," ","m","r","d","k","y">>,
         <<"n","m","y","r">> >>,
      << <<"l","b","w","N"," ","p","n","x","s">>,
         <<"l","b","w","N">> >>,
      << <<"s","n","h"," ","m","S","h">>,
         <<"m","S","h"," ","s","n","h">> >>,
      << <<"q","p","l","N"," ","a","l","y","e","z","r">>,
         <<"q","p","l","N">> >>,
      << <<"a","l","w","N"," ","y","g","a","l">>,
         <<"y","g","a","l"," ","a","l","w","N">> >>,
      << <<"a","l","x","n","N"," ","y","c","x","q">>,
         <<"y","c","x","q"," ","a","l","x","n","N">> >>,
      << <<"t","l"," ","g","b","w","r","y","M">>,
         <<"t","l"," ","g","y","b","w","r","y","M">> >>,
      << <<"h","e","l","y","h">>,
         <<"h","y","y","n","h">> >>,
      << <<"h","r","b","r","T"," ","s","m","w","a","l">>,
         <<"h","r","b","r","T"," ","s","m","w","a","l">> >>,
      << <<"h","m","l","K"," ","g","w","r","g">>,
         <<"h","m","l","K"," ","g","w","r","g">> >>,
      << <<"g","b","e","t"," ","h","t","x","m","w","S","t">>,
         <<"q","p","l","N">> >>
    }

\* STREET_ALIASES[s] || s
aliasOf(s) ==
    IF \E p \in STREET_ALIASES : p[1] = s
    THEN (CHOOSE p \in STREET_ALIASES : p[1] = s)[2]
    ELSE s

\* ------------------------------------------------------------------------
\* BUS_LANE_SCHEDULE  (bus_lane_hours.js 17-259)
\*
\* The entries of nine streets of the table, in table order, with every
\* entry of each of these streets: a street with several sections, a street
\* whose key carries a prefix word beside the same street without it, 24/7
\* entries, a 'default' section, a Saturday list, absent Friday lists, a key
\* with a quote character and two entries equal in every field.
\* `line` is the source line of the entry and stands for the identity of the
\* object (new Set(candidates) removes duplicates by identity).
\* A field that the source leaves out or sets to null is left out.
\* ------------------------------------------------------------------------

BUS_LANE_SCHEDULE ==
    <<
      [ line |-> 22,
        street |-> <<"a","b","N"," ","g","b","y","r","w","l">>,
        section |->
          <<"m","d","r","w","M"," ","l","c","p","w","N",":"," ","m","r","x","w","b"," ","m","r","m","w","r","q"," ","e","d"," ","r","x","w","b"," ","a","r","l","w","z","w","r","w","b">>,
        sun_thu |-> <<<<420, 1320>>>>, fri |-> <<<<420, 1020>>>> ],
      [ line |-> 23,
        street |-> <<"a","b","N"," ","g","b","y","r","w","l">>,
        section |->
          <<"m","c","p","w","N"," ","l","d","r","w","M",":"," ","m","g","S","r"," ","h","y","r","q","w","N"," ","e","d"," ","r","x","ge"," ","m","r","m","w","r","q">>,
        sun_thu |-> <<<<420, 1320>>>>, fri |-> <<<<420, 1020>>>> ],
      [ line |-> 24,
        street |-> <<"a","b","N"," ","g","b","y","r","w","l">>,
        section |->
          <<"m","d","r","w","M"," ","l","c","p","w","N",":"," ","m","r","x","w","b"," ","a","r","l","w","z","w","r","w","b"," ","e","d"," ","g","S","r"," ","h","y","r","q","w","N">>,
        sun_thu |-> <<<<420, 1320>>>>, fri |-> <<<<420, 1020>>>> ],
      [ line |-> 73,
        street |-> <<"n","m","y","r">>,
        section |->
          <<"m","d","r","w","M"," ","l","c","p","w","N",":"," ","m","d","r","K"," ","b","g","y","N"," ","e","d"," ","r","x","w","b"," ","p","n","q","s",","," ","m","n","S","r"," ","r","w","q","x"," ","e","d"," ","r","x","w","b"," ","l","b","n","w","N">>,
        sun_thu |-> <<<<300, 1320>>>>, fri |-> <<<<300, 1020>>>> ],
      [ line |-> 76,
        street |-> <<"d","r","K"," ","n","m","y","r">>,
        section |->
          <<"m","S","d","r","w","t"," ","r","w","q","x"," ","[","1","0","0"," ","m","T","r"," ","m","h","c","w","m","t","]"," ","e","d"," ","t","x","n","t"," ","h","d","l","q"," ","b","y","N"," ","r","x","w","b"," ","l","b","n","w","N"," ","l","r","x","w","b"," ","a","y","y","n","S","T","y","y","N">>,
        sun_thu |-> <<<<300, 1320>>>>, fri |-> <<<<300, 1020>>>> ],
      [ line |-> 77,
        street |-> <<"d","r","K"," ","n","m","y","r">>,
        section |->
          <<"m","r","x","w","b"," ","l","b","n","w","N"," ","e","d"," ","m","x","l","P"," ","g","l","y","l","w","t">>,
        sun_thu |-> <<<<300, 1320>>>>, fri |-> <<<<300, 1020>>>> ],
      [ line |-> 78,
        street |-> <<"d","r","K"," ","n","m","y","r">>,
        section |->
          <<"m","c","p","w","N"," ","l","d","r","w","M",":"," ","m","m","x","l","P"," ","g","l","y","l","w","t"," ","e","d"," ","r","x","w","b"," ","a","r","l","w","z","w","r","w","b">>,
        sun_thu |-> <<<<300, 1320>>>>, fri |-> <<<<300, 1020>>>> ],
      [ line |-> 79,
        street |-> <<"d","r","K"," ","n","m","y","r">>,
        section |->
          <<"m","c","p","w","N"," ","l","d","r","w","M",":"," ","m","r","x","w","b"," ","a","y","y","n","S","T","y","y","N"," ","e","d"," ","d","r","K"," ","b","g","y","N">>,
        sun_thu |-> <<<<300, 1320>>>>, fri |-> <<<<300, 1020>>>> ],
      [ line |-> 89,
        street |-> <<"h","x","r","S">>,
        section |->
          <<"m","c","p","w","N"," ","l","d","r","w","M",":"," ","m","r","x","w","b"," ","l","h"," ","g","r","d","y","h"," ","e","d"," ","d","r","K"," ","x","y","l"," ","h","S","r","y","w","N"," ","[","k","n","y","s","h"," ","w","y","c","y","a","h"," ","m","h","t","m","x","n","dq","t"," ","q","w","m","h"," ","7","]">>,
        allWeek |-> TRUE ],
      [ line |-> 94,
        street |-> <<"h","x","r","S">>,
        section |->
          <<"b","S","n","y"," ","h","k","y","w","w","n","y","M",":"," ","m","r","x","ge"," ","l","h"," ","g","a","r","d","y","h"," ","e","d"," ","r","x","ge"," ","h","m","s","y","l","h"," ","b","ge">>,
        sun_thu |-> <<<<360, 1260>>>>, fri |-> <<<<360, 1020>>>> ],
      [ line |-> 109,
        street |-> <<"h","l","w","x","m","y","M">>,
        section |->
          <<"m","d","r","w","M"," ","l","c","p","w","N",":"," ","m","r","x","w","b"," ","y","w","n","h"," ","h","n","b","y","a"," ","e","d"," ","r","x","w","b"," ","a","l","n","b","y">>,
        sun_thu |-> <<<<300, 1320>>>>, fri |-> <<<<300, 1080>>>> ],
      [ line |-> 112,
        street |-> <<"h","l","w","x","m","y","M">>,
        section |->
          <<"b","S","n","y"," ","h","k","y","w","w","n","y","M"," ","b","y","N"," ","r","x","w","b"," ","t","l"," ","g","y","b","w","r","y","M"," ","l","r","x","w","b"," ","y","g","a","l"," ","y","d","y","N">>,
        sun_thu |-> <<<<360, 1140>>>>, fri |-> <<<<360, 900>>>> ],
      [ line |-> 141,
        street |-> <<"y","g","a","l"," ","a","l","w","N">>,
        section |->
          <<"m","d","r","w","M"," ","l","c","p","w","N",":"," ","m","r","x","w","b"," ","t","w","b","l"," ","e","d"," ","d","r","K"," ","h","S","l","w","M">>,
        sun_thu |-> <<<<420, 840>>>> ],
      [ line |-> 142,
        street |-> <<"y","g","a","l"," ","a","l","w","N">>,
        section |->
          <<"m","c","p","w","N"," ","l","d","r","w","M",":"," ","m","r","x","ge"," ","q","r","m","n","c","q","y"," ","e","d"," ","r","x","w","b"," ","l","h"," ","g","r","d","y","h">>,
        sun_thu |-> <<<<420, 1140>>>> ],
      [ line |-> 150,
        street |-> <<"y","p","t">>,
        section |->
          <<"l","k","y","w","w","N"," ","c","p","w","N",":"," ","b","y","N"," ","r","x","w","b"," ","l","w","a","y"," ","p","s","T","r"," ","w","e","d"," ","b","y","t"," ","a","S","l">>,
        sun_thu |-> <<<<300, 1260>>>>, fri |-> <<<<300, 960>>>>, sat |-> <<<<1020, 1320>>>> ],
      [ line |-> 180,
        street |-> <<"c","h","dq","l">>,
        section |->
          <<"m","m","z","r","x"," ","l","m","e","r","b",":"," ","m","r","x","w","b"," ","d","b","w","r","h"," ","h","n","b","y","a","h"," ","e","d"," ","r","x","w","b"," ","h","m","c","b","y","e","y","M">>,
        allWeek |-> TRUE ],
      [ line |-> 193,
        street |-> <<"q","r","l","y","b","K">>,
        section |->
          <<"m","m","e","r","b"," ","l","m","z","r","x",":"," ","m","r","x","w","b"," ","h","x","S","m","w","n","a","y","M"," ","e","d"," ","d","r","K"," ","b","g","y","N">>,
        sun_thu |-> <<<<480, 600>>>>, fri |-> <<<<480, 600>>>> ],
      [ line |-> 194,
        street |-> <<"q","r","l","y","b","K">>,
        section |->
          <<"m","m","e","r","b"," ","l","m","z","r","x",":"," ","m","r","x","w","b"," ","h","x","S","m","w","n","a","y","M"," ","e","d"," ","d","r","K"," ","b","g","y","N">>,
        sun_thu |-> <<<<480, 600>>>>, fri |-> <<<<480, 600>>>> ],
      [ line |-> 237,
        street |-> <<"l","w","y","n","s","q","y">>,
        section |->
          <<"d","e","f","a","u","l","t">>,
        sun_thu |-> <<<<300, 1320>>>>, fri |-> <<<<300, 1020>>>> ]
    >>

\* Object.keys(SCHEDULE_BY_STREET) : the streets in the order in which the
\* loop of bus_lane_hours.js 263-269 first meets them
RECURSIVE keysFrom(_, _)
keysFrom(i, seen) ==
    IF i > Len(BUS_LANE_SCHEDULE) THEN <<>>
    ELSE IF BUS_LANE_SCHEDULE[i].street \in seen THEN keysFrom(i + 1, seen)
    ELSE <<BUS_LANE_SCHEDULE[i].street>>
             \o keysFrom(i + 1, seen \cup {BUS_LANE_SCHEDULE[i].street})

ScheduleKeys == keysFrom(1, {})

\* SCHEDULE_BY_STREET[key] : the entries of that street, in table order
SCHEDULE_BY_STREET(key) ==
    SelectSeq(BUS_LANE_SCHEDULE, LAMBDA e : e.street = key)


\* ------------------------------------------------------------------------
\* State
\* ------------------------------------------------------------------------
VARIABLES
    storage,                \* localStorage[REPORTS_STORAGE_KEY], parsed: the list of reports
    SIGN_OVERRIDES,         \* community_reports.js 65: <<key, override>> in insertion order
    SIGN_OVERRIDES_BY_OID,  \* community_reports.js 67: oid -> override
    clock,                  \* the reading of Date.now() at the last report submission
    renderedAt,             \* the `now` of the last renderLanes pass
    laneStatus,             \* the status computed by that pass, per segment oid
    call,                   \* the last call of a function on its own: name, input, output
    allCameras,             \* app.js 40: the cameras of the feed
    cameraSegmentMap,       \* app.js 887: camera OBJECTID -> segments, bidirectional
    filteredLat,            \* app.js 1081-1088: the state of the GPS low-pass filter
    filteredLng,
    filteredSpeed,
    filteredBearing,
    lastFilteredTime,
    prevFilteredLat,
    prevFilteredLng

camVars == <<allCameras, cameraSegmentMap>>

gpsVars ==
    <<filteredLat, filteredLng, filteredSpeed, filteredBearing,
      lastFilteredTime, prevFilteredLat, prevFilteredLng>>

VARIABLES
    currentHeading,         \* app.js 1088: the heading of the car icon
    currentSegment,         \* app.js 1072: the oid of the segment driven on
    voiceEnabled,           \* app.js 1069
    alertCooldowns,         \* app.js 1071: key -> time of the last alert
    alerts,                 \* the alerts spoken by the last checkDrivingAlerts
    allFeatures,            \* app.js 38: the lanes, with their geometry, as
                            \* the tracker of the position reads them
    spoken                  \* what speakHebrew was given so far: for a lane,
                            \* the time of its last blocked-lane alert

driveVars ==
    <<currentHeading, currentSegment, voiceEnabled, alertCooldowns, alerts,
      allFeatures, spoken>>

VARIABLES
    simActive,              \* app.js 2490: the simulator panel is open
    simPlanning,            \* app.js 2491
    simPlaying,             \* app.js 2493
    simRoute,               \* app.js 2492: the items of the route
    simAnimFrame,           \* app.js 2494: an animation frame is requested
    simMapClickHandler,     \* app.js 2500: the map click handler is registered
    simStartBtn,            \* simStartBtn is shown and simStopBtn hidden
    simTimers               \* the return-to-planning timers armed (app.js 3286)

simVars ==
    <<simActive, simPlanning, simPlaying, simRoute, simAnimFrame,
      simMapClickHandler, simStartBtn, simTimers>>

VARIABLES
    allRawFeatures,         \* app.js 39: the lanes as fetched
    loading,                \* init (app.js 3344): where it is, and the two
                            \* fetch loops: features, offset, hasMore, error
    cameraPopups            \* the content bound to each camera marker
                            \* (app.js 813), by OBJECTID

loadVars == <<allRawFeatures, loading, cameraPopups>>

\* the state declared below the report store and the GPS filter
lateVars == <<driveVars, simVars, loadVars>>

\* ------------------------------------------------------------------------
\* Time and day classification  (app.js 58-71, 317-331)
\* ------------------------------------------------------------------------

\* date.getDay() is date.day (0 = Sunday), getHours() and getMinutes()
\* getDayType with Friday among the weekdays
getDayTypeFridayWeekday(date) ==
    IF date.day >= 0 /\ date.day <= 5 THEN "sun_thurs"
    ELSE IF date.day = 6 THEN "sat"
    ELSE "sun_thurs"

\* getDayType with Sunday in the weekend
getDayTypeSundayWeekend(date) ==
    IF date.day >= 1 /\ date.day <= 4 THEN "sun_thurs"
    ELSE IF date.day = 5 THEN "fri"
    ELSE "sat"

getDayType(date) ==
    IF date.day >= 0 /\ date.day <= 4 THEN "sun_thurs"
    ELSE IF date.day = 5 THEN "fri"
    ELSE IF date.day = 6 THEN "sat"
    ELSE "sun_thurs"

\* hours + minutes / 60, in minutes
getCurrentDecimalHour(date) == date.hours * 60 + date.minutes

\* isInTimeRange with the end of the interval included
isInTimeRangeClosed(current, start, end) ==
    IF start <= end
    THEN current >= start /\ current <= end
    ELSE current >= start \/ current <= end

\* isInTimeRange without the overnight case
isInTimeRangeSameDay(current, start, end) ==
    current >= start /\ current < end

isInTimeRange(current, start, end) ==
    IF start <= end
    THEN current >= start /\ current < end
    ELSE current >= start \/ current < end

\* "HH:MM" as the pair of its two numbers: floor(decimal) and
\* round((decimal - hours) * 60)
formatHour(decimal) == <<decimal \div 60, decimal % 60>>

HEBREW_DAYS ==
    <<"rishon", "sheni", "shlishi", "revii", "hamishi", "shishi", "shabbat">>

\* ------------------------------------------------------------------------
\* matchScore  (app.js 124-161), in tenths
\* ------------------------------------------------------------------------

DirectionPhrases(direction) ==
    CASE direction = "N" -> { <<"l","c","p","w","N">>, <<"c","p","w","n","h">> }
      [] direction = "S" -> { <<"l","d","r","w","M">>, <<"d","r","w","m","h">> }
      [] direction = "E" -> { <<"l","m","z","r","x">>, <<"m","z","r","x","h">> }
      [] direction = "W" -> { <<"l","m","e","r","b">>, <<"m","e","r","b","h">> }
      [] OTHER -> {}

DefaultSection == <<"d","e","f","a","u","l","t">>

Min(a, b) == IF a <= b THEN a ELSE b

\* matchScore without the direction bonus of lines 151-154
matchScoreNoDirection(entry, feature) ==
    LET featureStreet == normalizeStreet(feature.street_name)
        entryStreet   == normalizeStreet(entry.street)
        aliased       == aliasOf(featureStreet)
        match         == featureStreet = entryStreet \/ aliased = entryStreet
        partialMatch  == ~match /\ (Includes(entryStreet, featureStreet)
                                    \/ Includes(featureStreet, entryStreet))
        section       == entry.section
        fromStreet    == normalizeStreet(feature.from_street)
        toStreet      == normalizeStreet(feature.to_street)
        score == (IF match THEN 10 ELSE 3)
                 + (IF fromStreet # <<>> /\ Includes(section, fromStreet) THEN 30 ELSE 0)
                 + (IF toStreet # <<>> /\ Includes(section, toStreet) THEN 30 ELSE 0)
    IN  IF featureStreet = <<>> \/ entryStreet = <<>> THEN 0
        ELSE IF ~match /\ ~partialMatch THEN 0
        ELSE IF section = DefaultSection THEN Min(score, 5)
        ELSE score

matchScore(entry, feature) ==
    LET featureStreet == normalizeStreet(feature.street_name)
        entryStreet   == normalizeStreet(entry.street)
        aliased       == aliasOf(featureStreet)
        match         == featureStreet = entryStreet \/ aliased = entryStreet
        partialMatch  == ~match /\ (Includes(entryStreet, featureStreet)
                                    \/ Includes(featureStreet, entryStreet))
        section       == entry.section
        fromStreet    == normalizeStreet(feature.from_street)
        toStreet      == normalizeStreet(feature.to_street)
        score == (IF match THEN 10 ELSE 3)
                 + (IF fromStreet # <<>> /\ Includes(section, fromStreet) THEN 30 ELSE 0)
                 + (IF toStreet # <<>> /\ Includes(section, toStreet) THEN 30 ELSE 0)
                 + (IF \E p \in DirectionPhrases(feature.direction_name) :
                          Includes(section, p)
                    THEN 20 ELSE 0)
    IN  IF featureStreet = <<>> \/ entryStreet = <<>> THEN 0
        ELSE IF ~match /\ ~partialMatch THEN 0
        ELSE IF section = DefaultSection THEN Min(score, 5)
        ELSE score

\* ------------------------------------------------------------------------
\* findSchedule  (app.js 168-210)
\* ------------------------------------------------------------------------

\* [...new Set(list)] : the first occurrence of every object, in order
RECURSIVE dedupFrom(_, _, _)
dedupFrom(list, i, seen) ==
    IF i > Len(list) THEN <<>>
    ELSE IF list[i].line \in seen THEN dedupFrom(list, i + 1, seen)
    ELSE <<list[i]>> \o dedupFrom(list, i + 1, seen \cup {list[i].line})

\* new Set([rawStreet, aliased]) in iteration order
nameVariants(rawStreet) ==
    IF aliasOf(rawStreet) = rawStreet THEN <<rawStreet>>
    ELSE <<rawStreet, aliasOf(rawStreet)>>

\* lines 179-187: for every key, for every variant that the key equals,
\* contains or is contained in, the entries of the key are appended
RECURSIVE collectFrom(_, _, _)
collectFrom(variants, k, v) ==
    IF k > Len(ScheduleKeys) THEN <<>>
    ELSE IF v > Len(variants) THEN collectFrom(variants, k + 1, 1)
    ELSE LET normKey == normalizeStreet(ScheduleKeys[k])
             variant == variants[v]
         IN  (IF normKey = variant \/ Includes(normKey, variant)
                     \/ Includes(variant, normKey)
              THEN SCHEDULE_BY_STREET(ScheduleKeys[k]) ELSE <<>>)
             \o collectFrom(variants, k, v + 1)

\* lines 174-190: the deduplicated candidates of a street name that
\* normalizes to the non-empty rawStreet
scheduleCandidates(rawStreet) ==
    dedupFrom(collectFrom(nameVariants(rawStreet), 1, 1), 1, {})

\* lines 197-206 with `s >= bestScore`: the last of the candidates tied for
\* the highest score
RECURSIVE bestFromLastOfTies(_, _, _, _, _)
bestFromLastOfTies(candidates, feature, i, best, bestScore) ==
    IF i > Len(candidates) THEN best
    ELSE LET s == matchScore(candidates[i], feature)
         IN  IF s >= bestScore
             THEN bestFromLastOfTies(candidates, feature, i + 1, candidates[i], s)
             ELSE bestFromLastOfTies(candidates, feature, i + 1, best, bestScore)

\* lines 197-206: the first candidate whose score exceeds every score
\* before it and at least matches every score after it, or none
RECURSIVE bestFrom(_, _, _, _, _)
bestFrom(candidates, feature, i, best, bestScore) ==
    IF i > Len(candidates) THEN best
    ELSE LET s == matchScore(candidates[i], feature)
         IN  IF s > bestScore
             THEN bestFrom(candidates, feature, i + 1, candidates[i], s)
             ELSE bestFrom(candidates, feature, i + 1, best, bestScore)

\* findSchedule without the return on an empty normalized name
findScheduleAnyName(feature) ==
    LET rawStreet  == normalizeStreet(feature.street_name)
        candidates == scheduleCandidates(rawStreet)
        best       == bestFrom(candidates, feature, 1, NullObj, 0)
    IN  IF Len(candidates) = 0 THEN NullObj
        ELSE IF Len(candidates) = 1 THEN candidates[1]
        ELSE IF best # NullObj THEN best
        ELSE candidates[1]

findSchedule(feature) ==
    LET rawStreet  == normalizeStreet(feature.street_name)
        candidates == scheduleCandidates(rawStreet)
        best       == bestFrom(candidates, feature, 1, NullObj, 0)
    IN  IF rawStreet = <<>> THEN NullObj
        ELSE IF Len(candidates) = 0 THEN NullObj
        ELSE IF Len(candidates) = 1 THEN candidates[1]
        ELSE IF best # NullObj THEN best
        ELSE candidates[1]

\* ------------------------------------------------------------------------
\* The segments of the feed
\* ------------------------------------------------------------------------

IbnGabirol  == <<"a","b","N"," ","g","b","y","r","w","l">>
Marmorek    == <<"m","r","m","w","r","q">>
Arlozorov   == <<"a","r","l","w","z","w","r","w","b">>
NamirMordechai == <<"n","m","y","r"," ","m","r","d","k","y">>
Tzahal      == <<"c","h","dq","l">>
Levinsky    == <<"l","w","y","n","s","q","y">>
RehovLevinsky == <<"r","x","w","b"," ","l","w","y","n","s","q","y">>
Yefet       == <<"y","p","t">>
HaYarkon    == <<"h","y","r","q","w","N">>
HaHarash    == <<"h","x","r","S">>
HaLohamim   == <<"h","l","w","x","m","y","M">>
Lohamim     == <<"l","w","x","m","y","M">>
TelGiborim  == <<"t","l"," ","g","y","b","w","r","y","M">>
\* the status value of a lane in force (app.js 228), and another value
ACTIVE      == <<"p","e","y","l">>
INACTIVE    == <<"l","a"," ","p","e","y","l">>

Segment(oid, street, from, to, direction, status) ==
    [ oid |-> oid, street_name |-> street, from_street |-> from,
      to_street |-> to, direction_name |-> direction, status |-> status ]

\* allFeatures: the attributes of the segments of the feed (layer 611)
Segments ==
    << Segment(101, IbnGabirol, Marmorek, Arlozorov, "N", ACTIVE),
       Segment(102, NamirMordechai, NullStr, NullStr, "S", NullStr),
       Segment(103, HaHarash, NullStr, NullStr, "", ACTIVE),
       Segment(104, Levinsky, NullStr, NullStr, "W", INACTIVE),
       Segment(105, Yefet, NullStr, NullStr, "N", ACTIVE),
       Segment(106, HaYarkon, NullStr, NullStr, "", ACTIVE),
       Segment(107, NullStr, NullStr, NullStr, "", <<>>),
       Segment(108, Tzahal, NullStr, NullStr, "", ACTIVE) >>

SegmentOids == {Segments[i].oid : i \in 1..Len(Segments)}
segmentOf(oid) == Segments[CHOOSE i \in 1..Len(Segments) : Segments[i].oid = oid]

\* findSchedule reads the feature and the static tables only: its value for
\* the segments of the feed, computed once
matchedSchedule == [i \in 1..Len(Segments) |-> findSchedule(Segments[i])]

findScheduleOnce(feature) ==
    matchedSchedule[CHOOSE i \in 1..Len(Segments) : Segments[i] = feature]

\* getSegmentsForStreet (app.js 1997-2004), as the list of the oids
getSegmentsForStreet(streetName) ==
    LET norm    == normalizeStreet(streetName)
        aliased == aliasOf(norm)
        hit(f)  == LET fName == normalizeStreet(f.street_name)
                   IN  fName = norm \/ fName = aliased
        found   == SelectSeq(Segments, hit)
    IN  IF StrFalsy(streetName) THEN <<>>
        ELSE [i \in 1..Len(found) |-> found[i].oid]


\* ------------------------------------------------------------------------
\* Sign overrides index  (community_reports.js 65-128)
\* ------------------------------------------------------------------------

\* .sort((a, b) => new Date(a.timestamp) - new Date(b.timestamp)) :
\* ascending and stable
RECURSIVE insertByTimestamp(_, _)
insertByTimestamp(sorted, r) ==
    IF sorted = <<>> THEN <<r>>
    ELSE IF sorted[Len(sorted)].timestamp <= r.timestamp THEN Append(sorted, r)
    ELSE Append(insertByTimestamp(SubSeq(sorted, 1, Len(sorted) - 1), r),
                sorted[Len(sorted)])

\* the reports left in storage order, unsorted
storageOrder(list) == list

RECURSIVE sortByTimestamp(_)
sortByTimestamp(list) ==
    IF list = <<>> THEN <<>>
    ELSE insertByTimestamp(sortByTimestamp(SubSeq(list, 1, Len(list) - 1)),
                           list[Len(list)])

\* lines 73-75
decodedReports(reports) ==
    sortByTimestamp(SelectSeq(reports,
        LAMBDA r : r.status = "decoded" /\ r.decodedHours # NullObj))

\* lines 81-87; `report` is kept as the id of the report
overrideOf(report) ==
    [ report     |-> report.id,
      hours      |-> report.decodedHours,
      street     |-> report.street,
      timestamp  |-> report.timestamp,
      featureIds |-> report.featureIds ]

\* obj[key] = value on a JavaScript object: a new key goes last, an old key
\* keeps its place
assign(obj, key, value) ==
    IF \E i \in 1..Len(obj) : obj[i][1] = key
    THEN [i \in 1..Len(obj) |-> IF obj[i][1] = key THEN <<key, value>> ELSE obj[i]]
    ELSE Append(obj, <<key, value>>)

\* lines 77-98, the street-keyed map after the reports i.. of `decoded`
RECURSIVE foldByStreet(_, _, _)
foldByStreet(decoded, i, acc) ==
    IF i > Len(decoded) THEN acc
    ELSE LET report == decoded[i]
             key    == IF StrFalsy(report.street) THEN <<>> ELSE trim(report.street)
         IN  IF key = <<>> \/ Len(report.featureIds) > 0
             THEN foldByStreet(decoded, i + 1, acc)
             ELSE foldByStreet(decoded, i + 1, assign(acc, key, overrideOf(report)))

\* lines 77-98, the oid-keyed map: the last report in `decoded` that has a
\* street and names the oid
byOidOf(decoded) ==
    LET names(i, oid) ==
            /\ ~StrFalsy(decoded[i].street) /\ trim(decoded[i].street) # <<>>
            /\ \E j \in 1..Len(decoded[i].featureIds) : decoded[i].featureIds[j] = oid
        oids == {oid \in UNION {{decoded[i].featureIds[j] :
                                   j \in 1..Len(decoded[i].featureIds)} :
                                i \in 1..Len(decoded)} :
                    \E i \in 1..Len(decoded) : names(i, oid)}
    IN  [oid \in oids |->
            overrideOf(decoded[CHOOSE i \in 1..Len(decoded) :
                                 /\ names(i, oid)
                                 /\ \A j \in (i + 1)..Len(decoded) : ~names(j, oid)])]

\* the first value of the street-keyed map whose normalized key is `norm`
firstByNorm(byStreet, norm) ==
    LET hits == {i \in 1..Len(byStreet) : normalizeStreet(byStreet[i][1]) = norm}
    IN  IF hits = {} THEN NullObj
        ELSE byStreet[CHOOSE i \in hits : \A j \in hits : i <= j][2]

\* a || b over objects
orElse(a, b) == IF a # NullObj THEN a ELSE b

\* getSignOverride with the street-keyed map consulted before the oid-keyed
signOverrideStreetFirst(byStreet, byOid, feature) ==
    LET street == feature.street_name
        norm   == normalizeStreet(street)
        found  == IF StrFalsy(street) THEN NullObj
                  ELSE IF \E i \in 1..Len(byStreet) : byStreet[i][1] = street
                  THEN byStreet[CHOOSE i \in 1..Len(byStreet) : byStreet[i][1] = street][2]
                  ELSE orElse(firstByNorm(byStreet, norm),
                              firstByNorm(byStreet, aliasOf(norm)))
    IN  IF found # NullObj THEN found
        ELSE IF feature.oid \in DOMAIN byOid THEN byOid[feature.oid]
        ELSE NullObj

\* getSignOverride over given values of the two maps
signOverrideIn(byStreet, byOid, feature) ==
    LET street == feature.street_name
        norm   == normalizeStreet(street)
    IN  IF feature.oid \in DOMAIN byOid
        THEN byOid[feature.oid]
        ELSE IF StrFalsy(street) THEN NullObj
        ELSE IF \E i \in 1..Len(byStreet) : byStreet[i][1] = street
        THEN byStreet[CHOOSE i \in 1..Len(byStreet) : byStreet[i][1] = street][2]
        ELSE orElse(firstByNorm(byStreet, norm), firstByNorm(byStreet, aliasOf(norm)))

getSignOverride(feature) ==
    signOverrideIn(SIGN_OVERRIDES, SIGN_OVERRIDES_BY_OID, feature)

\* ------------------------------------------------------------------------
\* getLaneStatus  (app.js 225-315)
\* ------------------------------------------------------------------------

\* the reason strings: the template, the day name or the formatted
\* intervals it is filled with, and whether it ends in the sign emoji
Reason(text, day, ranges, sign) ==
    [text |-> text, day |-> day, ranges |-> ranges, sign |-> sign]

Status(blocked, reason, category, schedule, signOverride) ==
    [ blocked |-> blocked, reason |-> reason, category |-> category,
      schedule |-> schedule, signOverride |-> signOverride ]

\* ovr.sun_thu / ovr.fri / ovr.sat for the day type; <<>> when the field is
\* null or missing
rangesFor(hours, dayType) ==
    LET field == CASE dayType = "sun_thurs" -> "sun_thu"
                   [] dayType = "fri" -> "fri"
                   [] dayType = "sat" -> "sat"
                   [] OTHER -> "none"
    IN  IF HasField(hours, field) THEN hours[field] ELSE <<>>

formatRanges(ranges) ==
    [i \in 1..Len(ranges) |-> <<formatHour(ranges[i][1]), formatHour(ranges[i][2])>>]

\* evaluateHours with the day's list consulted before allWeek
evaluateHoursListFirst(hours, now, sign, signOverride) ==
    LET ranges == rangesFor(hours, getDayType(now))
        hits   == {i \in 1..Len(ranges) :
                      isInTimeRange(getCurrentDecimalHour(now), ranges[i][1], ranges[i][2])}
        first  == CHOOSE i \in hits : \A j \in hits : i <= j
    IN  IF Len(ranges) = 0
        THEN Status(FALSE, Reason("no restriction on day", HEBREW_DAYS[now.day + 1], <<>>, sign),
                    "open", hours, signOverride)
        ELSE IF HasField(hours, "allWeek") /\ hours.allWeek
        THEN Status(TRUE, Reason("permanent 24/7", "", <<>>, sign),
                    "blocked", hours, signOverride)
        ELSE IF hits # {}
        THEN Status(TRUE, Reason("blocked now", "", formatRanges(<<ranges[first]>>), sign),
                    "blocked", hours, signOverride)
        ELSE Status(FALSE, Reason("open now", "", formatRanges(ranges), sign),
                    "open", hours, signOverride)

\* lines 240-256 and 268-314: the two copies differ in the sign marker and
\* in the signOverride they return
evaluateHours(hours, now, sign, signOverride) ==
    LET dayType   == getDayType(now)
        currentHr == getCurrentDecimalHour(now)
        ranges    == rangesFor(hours, dayType)
        hits      == {i \in 1..Len(ranges) :
                         isInTimeRange(currentHr, ranges[i][1], ranges[i][2])}
        first     == CHOOSE i \in hits : \A j \in hits : i <= j
    IN  IF HasField(hours, "allWeek") /\ hours.allWeek
        THEN Status(TRUE, Reason("permanent 24/7", "", <<>>, sign),
                    "blocked", hours, signOverride)
        ELSE IF Len(ranges) = 0
        THEN Status(FALSE, Reason("no restriction on day", HEBREW_DAYS[now.day + 1], <<>>, sign),
                    "open", hours, signOverride)
        ELSE IF hits # {}
        THEN Status(TRUE, Reason("blocked now", "", formatRanges(<<ranges[first]>>), sign),
                    "blocked", hours, signOverride)
        ELSE Status(FALSE, Reason("open now", "", formatRanges(ranges), sign),
                    "open", hours, signOverride)

\* lines 238-257
overrideStatus(signOvr, now) == evaluateHours(signOvr.hours, now, TRUE, signOvr)

\* lines 267-314
scheduleStatus(schedule, now) == evaluateHours(schedule, now, FALSE, NullObj)

\* laneStatusWith with the override consulted before the status attribute
laneStatusOverrideFirst(signOvr, schedule, feature, now) ==
    IF signOvr # NullObj /\ signOvr.hours # NullObj
    THEN overrideStatus(signOvr, now)
    ELSE IF ~StrFalsy(feature.status) /\ feature.status # ACTIVE
    THEN Status(FALSE, Reason("lane not active", "", <<>>, FALSE),
                "open", NullObj, NullObj)
    ELSE IF schedule = NullObj
    THEN Status(TRUE, Reason("no hours found", "", <<>>, FALSE),
                "unknown", NullObj, NullObj)
    ELSE scheduleStatus(schedule, now)

\* laneStatusWith with the static schedule consulted before the override
laneStatusScheduleFirst(signOvr, schedule, feature, now) ==
    IF ~StrFalsy(feature.status) /\ feature.status # ACTIVE
    THEN Status(FALSE, Reason("lane not active", "", <<>>, FALSE),
                "open", NullObj, NullObj)
    ELSE IF schedule # NullObj
    THEN scheduleStatus(schedule, now)
    ELSE IF signOvr # NullObj /\ signOvr.hours # NullObj
    THEN overrideStatus(signOvr, now)
    ELSE Status(TRUE, Reason("no hours found", "", <<>>, FALSE),
                "unknown", NullObj, NullObj)

\* laneStatusWith with a segment without hours taken as open
laneStatusAssumeOpen(signOvr, schedule, feature, now) ==
    IF ~StrFalsy(feature.status) /\ feature.status # ACTIVE
    THEN Status(FALSE, Reason("lane not active", "", <<>>, FALSE),
                "open", NullObj, NullObj)
    ELSE IF signOvr # NullObj /\ signOvr.hours # NullObj
    THEN overrideStatus(signOvr, now)
    ELSE IF schedule = NullObj
    THEN Status(FALSE, Reason("no hours found", "", <<>>, FALSE),
                "open", NullObj, NullObj)
    ELSE scheduleStatus(schedule, now)

\* getLaneStatus once getSignOverride has answered signOvr (line 236) and
\* findSchedule has answered schedule (line 259)
laneStatusWith(signOvr, schedule, feature, now) ==
    LET status == feature.status
    IN  IF ~StrFalsy(status) /\ status # ACTIVE
        THEN Status(FALSE, Reason("lane not active", "", <<>>, FALSE),
                    "open", NullObj, NullObj)
        ELSE IF signOvr # NullObj /\ signOvr.hours # NullObj
        THEN overrideStatus(signOvr, now)
        ELSE IF schedule = NullObj
        THEN Status(TRUE, Reason("no hours found", "", <<>>, FALSE),
                    "unknown", NullObj, NullObj)
        ELSE scheduleStatus(schedule, now)

getLaneStatus(feature, now) ==
    laneStatusWith(getSignOverride(feature), findScheduleOnce(feature), feature, now)

\* ------------------------------------------------------------------------
\* Inputs of the operations
\* ------------------------------------------------------------------------

\* Sunday and Monday, Friday, Saturday
Days == {0, 1, 5, 6}

\* the clock readings at which the lanes are rendered: the bounds of the
\* intervals in use and readings inside and outside them
ClockMarks ==
    { <<2, 0>>, <<5, 0>>, <<7, 0>>, <<9, 30>>, <<10, 0>>, <<17, 0>>,
      <<22, 0>>, <<23, 0>> }

Times == {[day |-> d, hours |-> m[1], minutes |-> m[2]] : d \in Days, m \in ClockMarks}

\* no render yet: allFeatures is still empty
NoDate == [day |-> 0 - 1, hours |-> 0, minutes |-> 0]

\* the report that submitReport builds (app.js 2078-2088): the street typed
\* and the segments ticked
SubmittedReports ==
    { [street |-> IbnGabirol,    featureIds |-> <<>>],
      [street |-> RehovLevinsky, featureIds |-> <<104>>] }

\* what saveDecodeForm reads from the decode form (app.js 2414-2429): 24/7;
\* or nothing for Sunday-Thursday, overlapping then adjacent intervals for
\* Friday, an empty and an overnight interval for Saturday
DecodedHours ==
    { [allWeek |-> TRUE],
      [allWeek |-> FALSE,
       fri |-> << <<300, 570>>, <<420, 600>>, <<600, 1020>> >>,
       sat |-> << <<300, 300>>, <<1320, 120>> >>] }

\* the segments ticked in the decode form: none, or all of the street
DecodeTicks(street) == {<<>>, getSegmentsForStreet(street)}

\* the number of reports submitted in a run
MaxSubmitted == 2

ReportIds == 1..MaxSubmitted

NoCall == [fn |-> "none"]

\* ------------------------------------------------------------------------
\* Operations
\* ------------------------------------------------------------------------

vars ==
    <<storage, SIGN_OVERRIDES, SIGN_OVERRIDES_BY_OID, clock, renderedAt,
      laneStatus, call, camVars, gpsVars, lateVars>>

\* null, or NaN, where a number is expected (app.js 1081-1088, 984): a value
\* below every number of the model, as NaN > 0 and null === x are false
NullNum == 0 - 1

\* a fetch loop before its first query (app.js 342-345, 387-390)
Fetch0 == [features |-> <<>>, offset |-> 0, hasMore |-> TRUE, error |-> "none"]

\* the driving, feed, popup and simulator state when the script has loaded
InitLate ==
    /\ currentHeading = NullNum
    /\ currentSegment = NullNum
    /\ voiceEnabled = FALSE
    /\ alertCooldowns = <<>>
    /\ alerts = <<>>
    /\ allFeatures = <<>>
    /\ spoken = <<>>
    /\ simActive = FALSE
    /\ simPlanning = FALSE
    /\ simPlaying = FALSE
    /\ simRoute = <<>>
    /\ simAnimFrame = FALSE
    /\ simMapClickHandler = FALSE
    /\ simStartBtn = TRUE
    /\ simTimers = 0
    /\ allRawFeatures = <<>>
    /\ loading = [pc |-> "fetching", lanes |-> Fetch0, cameras |-> Fetch0]
    /\ cameraPopups = <<>>

\* community_reports.js 231 on an empty localStorage, before the first render
Init ==
    /\ storage = <<>>
    /\ SIGN_OVERRIDES = <<>>
    /\ SIGN_OVERRIDES_BY_OID = <<>>
    /\ clock = 0
    /\ renderedAt = NoDate
    /\ laneStatus = <<>>
    /\ call = NoCall
    /\ allCameras = <<>>
    /\ cameraSegmentMap = <<>>
    /\ filteredLat = NullNum
    /\ filteredLng = NullNum
    /\ filteredSpeed = 0
    /\ filteredBearing = NullNum
    /\ lastFilteredTime = 0
    /\ prevFilteredLat = NullNum
    /\ prevFilteredLng = NullNum
    /\ InitLate

\* rebuildSignOverrides (community_reports.js 69-100) over the stored reports
rebuildSignOverrides(reports) ==
    /\ SIGN_OVERRIDES' = foldByStreet(decodedReports(reports), 1, <<>>)
    /\ SIGN_OVERRIDES_BY_OID' = byOidOf(decodedReports(reports))

\* renderLanes (app.js 610-622): the status of every segment at `now`, over
\* given values of the two maps
renderLanes(byStreet, byOid, now) ==
    [oid \in SegmentOids |->
        laneStatusWith(signOverrideIn(byStreet, byOid, segmentOf(oid)),
                       findScheduleOnce(segmentOf(oid)), segmentOf(oid), now)]

\* the re-render that ends saveDecodeForm and deleteReport (app.js 2440-2442,
\* 2453-2455), over the maps just rebuilt: skipped while allFeatures is
\* empty, else at new Date(), the reading of the last refresh
reRender ==
    /\ UNCHANGED renderedAt
    /\ laneStatus' =
          IF renderedAt = NoDate THEN laneStatus
          ELSE renderLanes(SIGN_OVERRIDES', SIGN_OVERRIDES_BY_OID', renderedAt)

\* submitReport (app.js 2062-2108) with addCommunityReport
\* (community_reports.js 29-42); ok is the outcome of saveCommunityReports
SubmitReport(report, ok) ==
    /\ clock < MaxSubmitted
    /\ clock' = clock + 1
    /\ LET new == [ id |-> clock', timestamp |-> clock', status |-> "pending",
                    street |-> report.street, featureIds |-> report.featureIds,
                    decodedHours |-> NullObj ]
       IN  IF ok
           THEN /\ storage' = Append(storage, new)
                /\ rebuildSignOverrides(storage')
           ELSE UNCHANGED <<storage, SIGN_OVERRIDES, SIGN_OVERRIDES_BY_OID>>
    /\ UNCHANGED <<renderedAt, laneStatus, call, camVars, gpsVars,
                   lateVars>>

\* saveDecodeForm (app.js 2421-2445) with updateCommunityReport
\* (community_reports.js 44-52), on a report of the list shown
SaveDecodeForm(id, hours, featureIds, ok) ==
    /\ \E i \in 1..Len(storage) : storage[i].id = id
    /\ LET idx     == CHOOSE i \in 1..Len(storage) : storage[i].id = id
           reports == [storage EXCEPT ![idx] =
                          [@ EXCEPT !.status = "decoded",
                                    !.decodedHours = hours,
                                    !.featureIds = featureIds]]
           saved   == IF ok THEN reports ELSE storage
       IN  /\ storage' = saved
           /\ rebuildSignOverrides(saved)
           /\ reRender
    /\ UNCHANGED <<clock, call, camVars, gpsVars,
                   lateVars>>

\* deleteReport (app.js 2447-2456) with deleteCommunityReport
\* (community_reports.js 54-59)
DeleteReport(id, ok) ==
    /\ LET reports == SelectSeq(storage, LAMBDA r : r.id # id)
           saved   == IF ok THEN reports ELSE storage
       IN  /\ storage' = saved
           /\ rebuildSignOverrides(saved)
           /\ reRender
    /\ UNCHANGED <<clock, call, camVars, gpsVars,
                   lateVars>>

\* the first render and the periodic one of startStatusRefresh
\* (app.js 854-860), at the reading `now` of the clock
StatusRefresh(now) ==
    /\ renderedAt' = now
    /\ laneStatus' = renderLanes(SIGN_OVERRIDES, SIGN_OVERRIDES_BY_OID, now)
    /\ UNCHANGED <<storage, SIGN_OVERRIDES, SIGN_OVERRIDES_BY_OID, clock, call,
                   camVars, gpsVars,
                   lateVars>>

Next ==
    \/ \E report \in SubmittedReports, ok \in BOOLEAN : SubmitReport(report, ok)
    \/ \E i \in 1..Len(storage), hours \in DecodedHours, ok \in BOOLEAN :
          \E featureIds \in DecodeTicks(storage[i].street) :
              SaveDecodeForm(storage[i].id, hours, featureIds, ok)
    \/ \E id \in ReportIds, ok \in BOOLEAN : DeleteReport(id, ok)
    \/ \E now \in Times : StatusRefresh(now)

Spec == Init /\ [][Next]_vars

\* ------------------------------------------------------------------------
\* The helpers called on their own: one call and what it returned
\* ------------------------------------------------------------------------

\* the characters of the street names passed to normalizeStreet
NameChars == {"r", "x", " ", "ap", "n"}

\* the longest street name passed to normalizeStreet
MaxNameLen == 5

RECURSIVE NamesOfLen(_)
NamesOfLen(n) ==
    IF n = 0 THEN {<<>>}
    ELSE {<<c>> \o w : c \in NameChars, w \in NamesOfLen(n - 1)}

StreetNames == {NullStr} \cup UNION {NamesOfLen(n) : n \in 0..MaxNameLen}

\* decimal hours, here the whole ones, in minutes
WholeHours == {60 * h : h \in 0..23}

\* the features passed to findSchedule
MatchedStreets ==
    { NullStr, <<>>, <<"ap">>, IbnGabirol, NamirMordechai, HaHarash, Levinsky,
      RehovLevinsky, Yefet, HaYarkon, Tzahal, HaLohamim, Lohamim }

MatchedFeatures ==
    { Segment(0, street, from, NullStr, direction, ACTIVE) :
        street \in MatchedStreets, from \in {NullStr, Marmorek, TelGiborim},
        direction \in {"", "N", "S"} }

Unchanged ==
    UNCHANGED <<storage, SIGN_OVERRIDES, SIGN_OVERRIDES_BY_OID, clock,
                renderedAt, laneStatus, camVars, gpsVars,
                   lateVars>>

NormalizeStreet(name) ==
    /\ call' = [fn |-> "normalizeStreet", name |-> name,
                normalized |-> normalizeStreet(name)]
    /\ Unchanged

IsInTimeRange(current, start, end) ==
    /\ call' = [fn |-> "isInTimeRange", current |-> current, start |-> start,
                end |-> end, inRange |-> isInTimeRange(current, start, end)]
    /\ Unchanged

FindSchedule(feature) ==
    /\ call' = [fn |-> "findSchedule", feature |-> feature,
                schedule |-> findSchedule(feature)]
    /\ Unchanged

\* one call, from the state after construction
NextCall ==
    \/ call = NoCall /\ \E name \in StreetNames : NormalizeStreet(name)
    \/ call = NoCall /\ \E current \in WholeHours, start \in WholeHours,
                            end \in WholeHours :
                            IsInTimeRange(current, start, end)
    \/ call = NoCall /\ \E feature \in MatchedFeatures : FindSchedule(feature)

SpecCalls == Init /\ [][NextCall]_vars

\* ------------------------------------------------------------------------
\* The report store and its index, called directly
\* (community_reports.js 29-59, 102-128)
\* ------------------------------------------------------------------------

RehovIbnGabirol  == <<"r","x","w","b"," ">> \o IbnGabirol
DerechIbnGabirol == <<"d","r","K"," ">> \o IbnGabirol
Namir            == <<"n","m","y","r">>

\* the reports passed to addCommunityReport: a street that is the name of a
\* segment, two that normalize to it, one that is the alias of a segment's
\* name, and the report of a camera with no street (app.js 2216-2229)
AddedReports ==
    { [street |-> IbnGabirol,       featureIds |-> <<>>],
      [street |-> IbnGabirol,       featureIds |-> <<101>>],
      [street |-> RehovIbnGabirol,  featureIds |-> <<>>],
      [street |-> DerechIbnGabirol, featureIds |-> <<>>],
      [street |-> Namir,            featureIds |-> <<>>],
      [street |-> <<>>,             featureIds |-> <<>>] }

\* the most reports kept in storage
MaxStored == 2

\* the readings of the system clock, which may be set back between two calls
Stamps == 1..(MaxStored + 1)

\* the `updates` passed to updateCommunityReport (app.js 2431-2435)
DecodeUpdates(street) ==
    { [status |-> "decoded", decodedHours |-> hours, featureIds |-> featureIds] :
        hours \in DecodedHours, featureIds \in DecodeTicks(street) }

\* addCommunityReport (community_reports.js 29-42) at the clock reading `now`
addCommunityReport(report, now, ok) ==
    /\ Len(storage) < MaxStored
    /\ \A i \in 1..Len(storage) : storage[i].timestamp # now
    /\ clock' = now
    /\ LET new == [ id |-> now, timestamp |-> now, status |-> "pending",
                    street |-> report.street, featureIds |-> report.featureIds,
                    decodedHours |-> NullObj ]
       IN  IF ok
           THEN /\ storage' = Append(storage, new)
                /\ rebuildSignOverrides(storage')
           ELSE UNCHANGED <<storage, SIGN_OVERRIDES, SIGN_OVERRIDES_BY_OID>>
    /\ UNCHANGED <<renderedAt, laneStatus, camVars, gpsVars, lateVars>>

\* updateCommunityReport (community_reports.js 44-52)
updateCommunityReport(id, updates, ok) ==
    /\ IF \A i \in 1..Len(storage) : storage[i].id # id
       THEN UNCHANGED <<storage, SIGN_OVERRIDES, SIGN_OVERRIDES_BY_OID>>
       ELSE LET idx     == CHOOSE i \in 1..Len(storage) : storage[i].id = id
                reports == [storage EXCEPT ![idx] =
                               [@ EXCEPT !.status = updates.status,
                                         !.decodedHours = updates.decodedHours,
                                         !.featureIds = updates.featureIds]]
            IN  /\ storage' = IF ok THEN reports ELSE storage
                /\ rebuildSignOverrides(storage')
    /\ UNCHANGED <<clock, renderedAt, laneStatus, camVars, gpsVars, lateVars>>

\* deleteCommunityReport without the rebuild of line 58
deleteWithoutRebuild(id, ok) ==
    /\ storage' = IF ok THEN SelectSeq(storage, LAMBDA r : r.id # id) ELSE storage
    /\ UNCHANGED <<SIGN_OVERRIDES, SIGN_OVERRIDES_BY_OID>>
    /\ UNCHANGED <<clock, renderedAt, laneStatus, camVars, gpsVars, lateVars>>

\* deleteCommunityReport (community_reports.js 54-59)
deleteCommunityReport(id, ok) ==
    /\ storage' = IF ok THEN SelectSeq(storage, LAMBDA r : r.id # id) ELSE storage
    /\ rebuildSignOverrides(storage')
    /\ UNCHANGED <<clock, renderedAt, laneStatus, camVars, gpsVars, lateVars>>

\* getSignOverride (community_reports.js 102-128) on a segment of the feed
GetSignOverride(feature) ==
    /\ call' = [fn |-> "getSignOverride", feature |-> feature,
                override |-> getSignOverride(feature)]
    /\ Unchanged

\* the updates of the decode form of any of the reports
AllDecodeUpdates == UNION {DecodeUpdates(r.street) : r \in AddedReports}

NextIndex ==
    \/ call = NoCall /\ \E report \in AddedReports, now \in Stamps, ok \in BOOLEAN :
                            addCommunityReport(report, now, ok) /\ UNCHANGED call
    \/ call = NoCall /\ \E id \in Stamps, ok \in BOOLEAN, updates \in AllDecodeUpdates :
                            updateCommunityReport(id, updates, ok) /\ UNCHANGED call
    \/ call = NoCall /\ \E id \in Stamps, ok \in BOOLEAN :
                            deleteCommunityReport(id, ok) /\ UNCHANGED call
    \/ call = NoCall /\ \E i \in 1..Len(Segments) : GetSignOverride(Segments[i])

SpecIndex == Init /\ [][NextIndex]_vars

\* ------------------------------------------------------------------------
\* Camera -> segment index  (app.js 887-1054)
\* ------------------------------------------------------------------------

\* Object.entries(STREET_ALIASES): the keys in the order of app.js 101-117
AliasKeys ==
    << <<"b","g","y","N"," ","m","n","x","M">>,
       <<"n","m","y","r"," ","m","r","d","k","y">>,
       <<"l","b","w","N"," ","p","n","x","s">>,
       <<"s","n","h"," ","m","S","h">>,
       <<"q","p","l","N"," ","a","l","y","e","z","r">>,
       <<"a","l","w","N"," ","y","g","a","l">>,
       <<"a","l","x","n","N"," ","y","c","x","q">>,
       <<"t","l"," ","g","b","w","r","y","M">>,
       <<"h","e","l","y","h">>,
       <<"h","r","b","r","T"," ","s","m","w","a","l">>,
       <<"h","m","l","K"," ","g","w","r","g">>,
       <<"g","b","e","t"," ","h","t","x","m","w","S","t">> >>

Lane(oid, street, direction) ==
    [oid |-> oid, street_name |-> street, direction_name |-> direction]

\* allFeatures as the index reads it: two lanes of one street northbound and
\* one southbound, a lane of a street that has an alias, one with no
\* direction and one with no street name; every lane has a geometry
CameraLanes ==
    << Lane(201, IbnGabirol, "N"),
       Lane(202, IbnGabirol, "S"),
       Lane(203, IbnGabirol, "N"),
       Lane(204, NamirMordechai, "S"),
       Lane(205, Yefet, ""),
       Lane(206, NullStr, "N") >>

LaneOids == {CameraLanes[i].oid : i \in 1..Len(CameraLanes)}

\* normalizeStreet(f.attributes.street_name) of every lane (line 915)
laneNorm ==
    [i \in 1..Len(CameraLanes) |-> normalizeStreet(CameraLanes[i].street_name)]

\* lanesByStreet[key] || [] (lines 910-922): the lanes with a street name
\* whose normalized name or its alias is the key, in feed order
lanesByStreet(key) ==
    LET at == {i \in 1..Len(CameraLanes) :
                  /\ ~StrFalsy(CameraLanes[i].street_name)
                  /\ (laneNorm[i] = key \/ aliasOf(laneNorm[i]) = key)}
    IN  SelectSeq(CameraLanes,
                  LAMBDA f : \E i \in at : CameraLanes[i] = f)

\* lines 940-947: the lanes under the first alias key, in table order, whose
\* value is the camera's street or its alias and that has lanes
RECURSIVE reverseAlias(_, _, _)
reverseAlias(camStreet, aliased, k) ==
    IF k > Len(AliasKeys) THEN <<>>
    ELSE LET gisName   == AliasKeys[k]
             schedName == aliasOf(gisName)
         IN  IF (schedName = camStreet \/ schedName = aliased)
                    /\ lanesByStreet(gisName) # <<>>
             THEN lanesByStreet(gisName)
             ELSE reverseAlias(camStreet, aliased, k + 1)

\* lines 936-949
candidatesFor(camStreet) ==
    IF lanesByStreet(camStreet) # <<>> THEN lanesByStreet(camStreet)
    ELSE IF lanesByStreet(aliasOf(camStreet)) # <<>>
    THEN lanesByStreet(aliasOf(camStreet))
    ELSE reverseAlias(camStreet, aliasOf(camStreet), 1)

CAM_SNAP_RADIUS == 60

\* nearby.sort((a, b) => a.dist - b.dist): ascending and stable; dist is
\* the camera's distance to every lane, distanceToPolyline of line 957
RECURSIVE insertByDist(_, _, _)
insertByDist(sorted, f, dist) ==
    IF sorted = <<>> THEN <<f>>
    ELSE IF dist[sorted[Len(sorted)].oid] <= dist[f.oid] THEN Append(sorted, f)
    ELSE Append(insertByDist(SubSeq(sorted, 1, Len(sorted) - 1), f, dist),
                sorted[Len(sorted)])

\* the nearby lanes left in feed order, unsorted
feedOrder(list, dist) == list

RECURSIVE sortByDist(_, _)
sortByDist(list, dist) ==
    IF list = <<>> THEN <<>>
    ELSE insertByDist(sortByDist(SubSeq(list, 1, Len(list) - 1), dist),
                      list[Len(list)], dist)

\* direction_name || 'none'
dirOf(f) == IF f.direction_name = "" THEN "none" ELSE f.direction_name

Abs(x) == IF x < 0 THEN 0 - x ELSE x

Assignment(segments, bidirectional) ==
    [segments |-> segments, bidirectional |-> bidirectional]

\* lines 974-1040 with the house number never read
assignNearbyNoHouse(nearby, dist, ms_bayit1) ==
    LET distinctDirs == {dirOf(nearby[i]) : i \in 1..Len(nearby)} \ {"none"}
        seg1   == nearby[1]
        others == {i \in 1..Len(nearby) : dirOf(nearby[i]) # dirOf(seg1)}
        seg2   == nearby[CHOOSE i \in others : \A j \in others : i <= j]
        gap    == Abs(dist[seg1.oid] - dist[seg2.oid])
    IN  IF Len(nearby) = 1 \/ Cardinality(distinctDirs) <= 1
        THEN Assignment(<<seg1.oid>>, FALSE)
        ELSE IF others # {} /\ gap < 10
        THEN Assignment(<<seg1.oid, seg2.oid>>, TRUE)
        ELSE Assignment(<<seg1.oid>>, FALSE)

\* lines 974-1040 over the sorted nearby lanes: the segments assigned, by
\* oid, and the flag
assignNearby(nearby, dist, ms_bayit1) ==
    LET distinctDirs == {dirOf(nearby[i]) : i \in 1..Len(nearby)} \ {"none"}
        seg1   == nearby[1]
        others == {i \in 1..Len(nearby) : dirOf(nearby[i]) # dirOf(seg1)}
        seg2   == nearby[CHOOSE i \in others : \A j \in others : i <= j]
        gap    == Abs(dist[seg1.oid] - dist[seg2.oid])
        isEven == ms_bayit1 % 2 = 0
        isDir1Ascending == seg1.direction_name \in {"N", "NE", "E"}
    IN  IF Len(nearby) = 1 \/ Cardinality(distinctDirs) <= 1
        THEN Assignment(<<seg1.oid>>, FALSE)
        ELSE IF ms_bayit1 > 0
        THEN IF others = {} THEN Assignment(<<seg1.oid>>, FALSE)
             ELSE IF gap < 3
             THEN IF isEven = isDir1Ascending
                  THEN Assignment(<<seg1.oid>>, FALSE)
                  ELSE Assignment(<<seg2.oid>>, FALSE)
             ELSE Assignment(<<seg1.oid>>, FALSE)
        ELSE IF others # {} /\ gap < 10
        THEN Assignment(<<seg1.oid, seg2.oid>>, TRUE)
        ELSE Assignment(<<seg1.oid>>, FALSE)

\* lines 926-1040 for one camera: its assignment, or null when the loop
\* moves on without one
assignmentOf(cam) ==
    LET camStreet  == normalizeStreet(cam.t_rechov1)
        candidates == candidatesFor(camStreet)
        nearby     == sortByDist(SelectSeq(candidates,
                          LAMBDA f : cam.dist[f.oid] < CAM_SNAP_RADIUS), cam.dist)
    IN  IF ~cam.located \/ camStreet = <<>> THEN NullObj
        ELSE IF candidates = <<>> \/ nearby = <<>> THEN NullObj
        ELSE assignNearby(nearby, cam.dist, cam.ms_bayit1)

\* cameraSegmentMap[id] = value
put(map, id, value) ==
    [x \in DOMAIN map \cup {id} |-> IF x = id THEN value ELSE map[x]]

\* the loop of line 926 from camera k on, over the map so far
RECURSIVE indexFrom(_, _, _)
indexFrom(cameras, k, map) ==
    IF k > Len(cameras) THEN map
    ELSE IF assignmentOf(cameras[k]) = NullObj THEN indexFrom(cameras, k + 1, map)
    ELSE indexFrom(cameras, k + 1,
                   put(map, cameras[k].OBJECTID, assignmentOf(cameras[k])))

\* the loop of line 926 adding to the entries a map already holds: the
\* segments of a camera that has an entry are appended to it
RECURSIVE patchFrom(_, _, _)
patchFrom(cameras, k, map) ==
    IF k > Len(cameras) THEN map
    ELSE IF assignmentOf(cameras[k]) = NullObj THEN patchFrom(cameras, k + 1, map)
    ELSE LET id  == cameras[k].OBJECTID
             new == assignmentOf(cameras[k])
         IN  patchFrom(cameras, k + 1,
                 put(map, id,
                     IF id \in DOMAIN map
                     THEN Assignment(map[id].segments \o new.segments,
                                     new.bidirectional)
                     ELSE new))

\* buildCameraSegmentIndex without the reset of line 906
patchCameraSegmentIndex(cameras) ==
    IF Len(CameraLanes) = 0 \/ Len(cameras) = 0 THEN cameraSegmentMap
    ELSE patchFrom(cameras, 1, cameraSegmentMap)

\* buildCameraSegmentIndex (lines 905-1054): the new cameraSegmentMap
buildCameraSegmentIndex(cameras) ==
    IF Len(CameraLanes) = 0 \/ Len(cameras) = 0 THEN <<>>
    ELSE indexFrom(cameras, 1, <<>>)

\* the distances of a camera to the lanes
Distances == {2, 4, 7, 15, 70}

\* ms_bayit1 as parseInt reads it: none (NaN), 0, odd, even
HouseNumbers == {NullNum, 0, 7, 8}

Camera(id, street, house, located, dist) ==
    [OBJECTID |-> id, t_rechov1 |-> street, ms_bayit1 |-> house,
     located |-> located, dist |-> dist]

\* far from every lane but those given
DistTo(near) ==
    [oid \in LaneOids |-> IF oid \in DOMAIN near THEN near[oid] ELSE 70]

\* the cameras of the feed, of OBJECTID id: on the street of the three
\* lanes at every distance to each; on a street by its alias, by its name
\* and by a prefixed name; on the street of the lane with no direction; on a
\* street with no lane; with no street; with no geometry
CamerasOf(id) ==
    { Camera(id, IbnGabirol, house, TRUE,
             DistTo((201 :> d1) @@ (202 :> d2) @@ (203 :> d3))) :
        house \in HouseNumbers, d1 \in Distances, d2 \in Distances,
        d3 \in {4, 70} }
    \cup { Camera(id, street, NullNum, TRUE, DistTo(204 :> d)) :
             street \in {Namir, NamirMordechai, <<"d","r","K"," ">> \o Namir},
             d \in {2, 70} }
    \cup { Camera(id, Yefet, 7, TRUE, DistTo(205 :> 2)),
           Camera(id, HaYarkon, NullNum, TRUE, DistTo(201 :> 2)),
           Camera(id, NullStr, NullNum, TRUE, DistTo(206 :> 2)),
           Camera(id, IbnGabirol, NullNum, FALSE, DistTo(201 :> 2)) }

\* allCameras: no camera, one camera, or a first camera out of four (both
\* lanes near, one, none) followed by a second camera
CameraFeeds ==
    {<<>>} \cup {<<c>> : c \in CamerasOf(1)}
    \cup { <<c1, c2>> :
             c1 \in { Camera(1, IbnGabirol, house, TRUE,
                             DistTo((201 :> 7) @@ (202 :> d2))) :
                        house \in {NullNum, 7}, d2 \in {2, 70} },
             c2 \in { Camera(2, IbnGabirol, house, TRUE,
                             DistTo((201 :> d1) @@ (202 :> 7))) :
                        house \in {NullNum, 8}, d1 \in {2, 70} }
                    \cup {Camera(2, HaYarkon, NullNum, TRUE, DistTo(201 :> 2))} }

\* the state after the feeds were fetched (app.js 3364-3376), before the
\* index is built
InitCameras ==
    /\ storage = <<>>
    /\ SIGN_OVERRIDES = <<>>
    /\ SIGN_OVERRIDES_BY_OID = <<>>
    /\ clock = 0
    /\ renderedAt = NoDate
    /\ laneStatus = <<>>
    /\ call = NoCall
    /\ allCameras \in CameraFeeds
    /\ cameraSegmentMap = <<>>
    /\ filteredLat = NullNum
    /\ filteredLng = NullNum
    /\ filteredSpeed = 0
    /\ filteredBearing = NullNum
    /\ lastFilteredTime = 0
    /\ prevFilteredLat = NullNum
    /\ prevFilteredLng = NullNum
    /\ InitLate

\* the number of runs of buildCameraSegmentIndex followed
MaxRuns == 3

\* a run of buildCameraSegmentIndex over the cameras and the map as they are
BuildCameraSegmentIndex ==
    /\ cameraSegmentMap' = buildCameraSegmentIndex(allCameras)
    /\ call' = [fn |-> "buildCameraSegmentIndex",
                runs |-> IF call = NoCall THEN 1
                         ELSE IF call.runs < MaxRuns THEN call.runs + 1
                         ELSE MaxRuns]
    /\ UNCHANGED <<storage, SIGN_OVERRIDES, SIGN_OVERRIDES_BY_OID, clock,
                   renderedAt, laneStatus, allCameras, gpsVars,
                   lateVars>>

NextCameras == BuildCameraSegmentIndex

SpecCameras == InitCameras /\ [][NextCameras]_vars

\* ------------------------------------------------------------------------
\* Properties of the rendered statuses
\* ------------------------------------------------------------------------

\* the lanes have been rendered: laneStatus holds the status of every segment
\* at renderedAt
Rendered == renderedAt # NoDate

\* the status attribute is absent, empty or the active sentinel
IsActive(feature) == StrFalsy(feature.status) \/ feature.status = ACTIVE

\* the decimal hour h, in minutes, lies in some interval of the list: from
\* start up to but excluding end, across midnight when start > end
SomeIntervalContains(ranges, h) ==
    \E i \in 1..Len(ranges) :
        \/ ranges[i][1] <= ranges[i][2] /\ ranges[i][1] <= h /\ h < ranges[i][2]
        \/ ranges[i][1] > ranges[i][2] /\ (h >= ranges[i][1] \/ h < ranges[i][2])

\* the class of a weekday: 0-4, 5, 6
DayClass(day) == IF day = 5 THEN "fri" ELSE IF day = 6 THEN "sat" ELSE "sun_thu"

\* the interval list of the weekday's class, empty when absent
DayClassList(hours, day) ==
    IF DayClass(day) \in DOMAIN hours THEN hours[DayClass(day)] ELSE <<>>

IsAllWeek(hours) == "allWeek" \in DOMAIN hours /\ hours.allWeek

\* C1: a segment whose status attribute is present and is not the active
\* sentinel is rendered open and not blocked at every day and hour, whatever
\* override or schedule entry exists for it.
C1_InactiveIsOpen ==
    Rendered =>
        \A oid \in SegmentOids :
            ~IsActive(segmentOf(oid)) =>
                /\ laneStatus[oid].category = "open"
                /\ laneStatus[oid].blocked = FALSE

\* an inactive segment with a static entry, under an override by oid that
\* says 24/7, rendered open
C1_Witness ==
    /\ Rendered
    /\ \E oid \in SegmentOids :
          /\ ~IsActive(segmentOf(oid))
          /\ oid \in DOMAIN SIGN_OVERRIDES_BY_OID
          /\ IsAllWeek(SIGN_OVERRIDES_BY_OID[oid].hours)
          /\ findScheduleOnce(segmentOf(oid)) # NullObj
          /\ laneStatus[oid].category = "open"

\* C2: for an active segment with a decoded override and a static entry, the
\* status is blocked exactly when the override says 24/7 or an interval of
\* the override's list for the day class contains the hour; the override is
\* returned as schedule and signOverride; the reason carries the sign
\* marker, which no status without an override carries.
C2_OverridePrecedence ==
    Rendered =>
        \A oid \in SegmentOids :
            LET feature == segmentOf(oid)
                ovr     == getSignOverride(feature)
                st      == laneStatus[oid]
            IN  /\ (IsActive(feature) /\ ovr # NullObj
                        /\ findScheduleOnce(feature) # NullObj) =>
                       /\ st.blocked =
                             (IsAllWeek(ovr.hours)
                              \/ SomeIntervalContains(
                                     DayClassList(ovr.hours, renderedAt.day),
                                     getCurrentDecimalHour(renderedAt)))
                       /\ st.schedule = ovr.hours
                       /\ st.signOverride = ovr
                       /\ st.reason.sign = TRUE
                /\ (~IsActive(feature) \/ ovr = NullObj) => st.reason.sign = FALSE

\* an active segment whose override says open at an hour at which its
\* static entry says blocked
C2_Witness ==
    /\ Rendered
    /\ \E oid \in SegmentOids :
          /\ IsActive(segmentOf(oid))
          /\ getSignOverride(segmentOf(oid)) # NullObj
          /\ findScheduleOnce(segmentOf(oid)) # NullObj
          /\ scheduleStatus(findScheduleOnce(segmentOf(oid)), renderedAt).blocked
          /\ laneStatus[oid].blocked = FALSE
          /\ laneStatus[oid].reason.sign = TRUE

\* no schedule key equals, contains or is contained in the normalized
\* street name or its alias, or the normalized name is empty
NoCandidates(feature) ==
    LET rawStreet == normalizeStreet(feature.street_name)
    IN  \/ rawStreet = <<>>
        \/ \A k \in 1..Len(ScheduleKeys) : \A v \in {rawStreet, aliasOf(rawStreet)} :
              LET normKey == normalizeStreet(ScheduleKeys[k])
              IN  ~(Includes(normKey, v) \/ Includes(v, normKey))

\* C3: a segment is rendered 'unknown' exactly when it is active, has no
\* override and no schedule candidate; it is then blocked, with no schedule.
C3_UnknownOnlyWithoutCandidates ==
    Rendered =>
        \A oid \in SegmentOids :
            LET feature == segmentOf(oid)
                st      == laneStatus[oid]
            IN  /\ (st.category = "unknown") =
                      (IsActive(feature) /\ getSignOverride(feature) = NullObj
                          /\ NoCandidates(feature))
                /\ st.category = "unknown" =>
                      st.blocked = TRUE /\ st.schedule = NullObj

\* an active segment with a street name, without override or candidate,
\* rendered unknown while another segment has an override
C3_Witness ==
    /\ Rendered
    /\ \E oid \in SegmentOids :
          /\ IsActive(segmentOf(oid))
          /\ ~StrFalsy(segmentOf(oid).street_name)
          /\ NoCandidates(segmentOf(oid))
          /\ laneStatus[oid].category = "unknown"
          /\ laneStatus[oid].blocked = TRUE
    /\ Len(SIGN_OVERRIDES) > 0

\* the hours that decide an active segment: the override's, or without an
\* override the static entry's
ResolvedHours(feature) ==
    IF getSignOverride(feature) # NullObj THEN getSignOverride(feature).hours
    ELSE findScheduleOnce(feature)

\* C4: an active segment whose override, or without an override whose static
\* entry, has allWeek set is rendered blocked, category 'blocked', at every
\* hour of every day class.
C4_AllWeekBlocked ==
    Rendered =>
        \A oid \in SegmentOids :
            (/\ IsActive(segmentOf(oid))
             /\ ResolvedHours(segmentOf(oid)) # NullObj
             /\ IsAllWeek(ResolvedHours(segmentOf(oid)))) =>
                /\ laneStatus[oid].blocked = TRUE
                /\ laneStatus[oid].category = "blocked"

\* on a Saturday, an active segment whose static entry has intervals, under
\* an override that says 24/7, and a segment whose static entry says 24/7
C4_Witness ==
    /\ Rendered
    /\ renderedAt.day = 6
    /\ \E oid \in SegmentOids :
          /\ IsActive(segmentOf(oid))
          /\ getSignOverride(segmentOf(oid)) # NullObj
          /\ IsAllWeek(getSignOverride(segmentOf(oid)).hours)
          /\ findScheduleOnce(segmentOf(oid)) # NullObj
          /\ ~IsAllWeek(findScheduleOnce(segmentOf(oid)))
          /\ laneStatus[oid].blocked = TRUE
    /\ \E oid \in SegmentOids :
          /\ IsActive(segmentOf(oid))
          /\ getSignOverride(segmentOf(oid)) = NullObj
          /\ findScheduleOnce(segmentOf(oid)) # NullObj
          /\ IsAllWeek(findScheduleOnce(segmentOf(oid)))
          /\ laneStatus[oid].blocked = TRUE

\* C5 as claimed: with allWeek unset, for every interval [start, end] with
\* start <= end of the list of the day class, the status at exactly start
\* is blocked and the status at exactly end is open.
C5_HalfOpenAnyList ==
    Rendered =>
        \A oid \in SegmentOids :
            LET hours  == ResolvedHours(segmentOf(oid))
                ranges == DayClassList(hours, renderedAt.day)
                hr     == getCurrentDecimalHour(renderedAt)
            IN  (IsActive(segmentOf(oid)) /\ hours # NullObj /\ ~IsAllWeek(hours)) =>
                    \A i \in 1..Len(ranges) :
                        ranges[i][1] <= ranges[i][2] =>
                            /\ hr = ranges[i][1] => laneStatus[oid].blocked = TRUE
                            /\ hr = ranges[i][2] => laneStatus[oid].blocked = FALSE

\* C5, amended: with allWeek unset, for every interval [start, end] with
\* start <= end of the list of the day class, the status at exactly start
\* is blocked when start < end, and the status at exactly end is open
\* unless an interval of the list contains end.
C5_HalfOpen ==
    Rendered =>
        \A oid \in SegmentOids :
            LET hours  == ResolvedHours(segmentOf(oid))
                ranges == DayClassList(hours, renderedAt.day)
                hr     == getCurrentDecimalHour(renderedAt)
            IN  (IsActive(segmentOf(oid)) /\ hours # NullObj /\ ~IsAllWeek(hours)) =>
                    \A i \in 1..Len(ranges) :
                        ranges[i][1] <= ranges[i][2] =>
                            /\ (hr = ranges[i][1] /\ ranges[i][1] < ranges[i][2]) =>
                                  laneStatus[oid].blocked = TRUE
                            /\ (hr = ranges[i][2]
                                  /\ \A j \in 1..Len(ranges) :
                                        ~SomeIntervalContains(<<ranges[j]>>, hr)) =>
                                  laneStatus[oid].blocked = FALSE

\* rendered at exactly the end of an interval of an override's list for the
\* day that no interval of the list contains: open
C5_Witness ==
    /\ Rendered
    /\ \E oid \in SegmentOids :
          LET ovr    == getSignOverride(segmentOf(oid))
              ranges == DayClassList(ovr.hours, renderedAt.day)
          IN  /\ IsActive(segmentOf(oid))
              /\ ovr # NullObj
              /\ ~IsAllWeek(ovr.hours)
              /\ \E i \in 1..Len(ranges) :
                    /\ ranges[i][1] < ranges[i][2]
                    /\ ranges[i][2] = getCurrentDecimalHour(renderedAt)
              /\ laneStatus[oid].blocked = FALSE

\* C7: for an active segment whose override, or without an override whose
\* static entry, has allWeek unset, the status follows the list of the
\* weekday's class (0-4, 5, 6): blocked exactly when an interval of the list
\* contains the hour, the reason then citing the first such interval; open
\* with the day's name when the list is empty or absent; else open with the
\* whole list.
C7_DayClassList ==
    Rendered =>
        \A oid \in SegmentOids :
            LET hours  == ResolvedHours(segmentOf(oid))
                ranges == DayClassList(hours, renderedAt.day)
                hr     == getCurrentDecimalHour(renderedAt)
                st     == laneStatus[oid]
                hhmm(m) == <<m \div 60, m % 60>>
                cited(r) == << <<hhmm(r[1]), hhmm(r[2])>> >>
            IN  (IsActive(segmentOf(oid)) /\ hours # NullObj /\ ~IsAllWeek(hours)) =>
                    /\ st.blocked = SomeIntervalContains(ranges, hr)
                    /\ st.category = (IF st.blocked THEN "blocked" ELSE "open")
                    /\ st.blocked =>
                          \E i \in 1..Len(ranges) :
                              /\ SomeIntervalContains(<<ranges[i]>>, hr)
                              /\ \A j \in 1..(i - 1) : ~SomeIntervalContains(<<ranges[j]>>, hr)
                              /\ st.reason.text = "blocked now"
                              /\ st.reason.ranges = cited(ranges[i])
                    /\ Len(ranges) = 0 =>
                          st.blocked = FALSE /\ st.reason.text = "no restriction on day"
                    /\ (~st.blocked /\ Len(ranges) > 0) =>
                          /\ st.reason.text = "open now"
                          /\ Len(st.reason.ranges) = Len(ranges)

\* on a Friday, two intervals of an override's Friday list contain the
\* hour and the reason cites the first; the Sunday-Thursday list of the
\* segment's static entry contains the hour too
C7_Witness ==
    /\ Rendered
    /\ renderedAt.day = 5
    /\ \E oid \in SegmentOids :
          LET ovr    == getSignOverride(segmentOf(oid))
              ranges == DayClassList(ovr.hours, 5)
              hr     == getCurrentDecimalHour(renderedAt)
          IN  /\ IsActive(segmentOf(oid))
              /\ ovr # NullObj
              /\ ~IsAllWeek(ovr.hours)
              /\ Len(ranges) >= 2
              /\ SomeIntervalContains(<<ranges[1]>>, hr)
              /\ SomeIntervalContains(<<ranges[2]>>, hr)
              /\ laneStatus[oid].blocked = TRUE
              /\ laneStatus[oid].reason.ranges =
                    << <<formatHour(ranges[1][1]), formatHour(ranges[1][2])>> >>

\* the timestamps of the weekday class and decimal hour of `now`
SameClassAndHour(now) ==
    {t \in Times : /\ DayClass(t.day) = DayClass(now.day)
                    /\ getCurrentDecimalHour(t) = getCurrentDecimalHour(now)}

\* C8 as claimed: under the same override index, the statuses of a segment
\* at two timestamps of equal day class and equal decimal hour are
\* identical, reason included.
C8_PureOfClassAndHour ==
    Rendered =>
        \A t \in SameClassAndHour(renderedAt) : \A oid \in SegmentOids :
            getLaneStatus(segmentOf(oid), t) = laneStatus[oid]

\* C8, amended: under the same override index, the statuses of a segment at
\* two timestamps of equal day class and equal decimal hour have the same
\* blocked, category, schedule and signOverride, and the same reason apart
\* from the weekday that the 'no restriction' reason names.
C8_PureApartFromDayName ==
    Rendered =>
        \A t \in SameClassAndHour(renderedAt) : \A oid \in SegmentOids :
            LET other == getLaneStatus(segmentOf(oid), t)
                st    == laneStatus[oid]
            IN  /\ [other EXCEPT !.reason.day = ""] = [st EXCEPT !.reason.day = ""]
                /\ other.reason.day # st.reason.day =>
                      st.reason.text = "no restriction on day"

\* rendered on a Sunday with a segment under an override without hours for
\* Sunday-Thursday: on Monday at the same hour the reason names another day
C8_Witness ==
    /\ Rendered
    /\ renderedAt.day = 0
    /\ \E oid \in SegmentOids : \E t \in SameClassAndHour(renderedAt) :
          /\ t.day = 1
          /\ laneStatus[oid].signOverride # NullObj
          /\ laneStatus[oid].reason.text = "no restriction on day"
          /\ getLaneStatus(segmentOf(oid), t).reason.day # laneStatus[oid].reason.day
          /\ getLaneStatus(segmentOf(oid), t).blocked = laneStatus[oid].blocked

\* ------------------------------------------------------------------------
\* Properties of the helpers
\* ------------------------------------------------------------------------

\* C6: isInTimeRange(current, start, end) with start > end holds exactly
\* when current >= start or current < end, and with start <= end exactly
\* when start <= current < end; for 22:00 to 6:00 it holds at 23:00 and at
\* 2:00 and not at 10:00.
C6_OvernightWraparound ==
    call.fn = "isInTimeRange" =>
        /\ call.start > call.end =>
              (call.inRange = (call.current >= call.start \/ call.current < call.end))
        /\ call.start <= call.end =>
              (call.inRange = (call.start <= call.current /\ call.current < call.end))
        /\ (call.start = 22 * 60 /\ call.end = 6 * 60) =>
              /\ call.current \in {23 * 60, 2 * 60} => call.inRange = TRUE
              /\ call.current = 10 * 60 => call.inRange = FALSE

\* 2:00 asked of 22:00 to 6:00: inside
C6_Witness ==
    /\ call.fn = "isInTimeRange"
    /\ call.start = 22 * 60 /\ call.end = 6 * 60 /\ call.current = 2 * 60
    /\ call.inRange = TRUE

\* C9: normalizeStreet(normalizeStreet(s)) = normalizeStreet(s) for every
\* street name s, null and empty included.
C9_Idempotent ==
    call.fn = "normalizeStreet" => normalizeStreet(call.normalized) = call.normalized

\* the lines of the entries whose street key, normalized, equals, contains
\* or is contained in the normalized street name or its alias
CandidateLines(feature) ==
    LET rawStreet == normalizeStreet(feature.street_name)
        related(key) ==
            \E v \in {rawStreet, aliasOf(rawStreet)} :
                Includes(normalizeStreet(key), v) \/ Includes(v, normalizeStreet(key))
    IN  {BUS_LANE_SCHEDULE[i].line : i \in {j \in 1..Len(BUS_LANE_SCHEDULE) :
                                                related(BUS_LANE_SCHEDULE[j].street)}}

\* C10: when exactly one entry is a candidate for a street name that does
\* not normalize to the empty string, findSchedule returns that entry; it
\* returns null exactly when no entry is a candidate or the name normalizes
\* to the empty string.
C10_SingleCandidate ==
    call.fn = "findSchedule" =>
        LET rawStreet == normalizeStreet(call.feature.street_name)
            lines     == CandidateLines(call.feature)
        IN  /\ (rawStreet # <<>> /\ Cardinality(lines) = 1) =>
                  /\ call.schedule # NullObj
                  /\ call.schedule.line \in lines
            /\ (call.schedule = NullObj) = (rawStreet = <<>> \/ lines = {})

\* a street with a single entry, of the default section, whose score is
\* the least a candidate can have, returned
C10_Witness ==
    /\ call.fn = "findSchedule"
    /\ Cardinality(CandidateLines(call.feature)) = 1
    /\ call.schedule # NullObj
    /\ call.schedule.section = DefaultSection
    /\ matchScore(call.schedule, call.feature) <= 5

\* ------------------------------------------------------------------------
\* Properties of the matcher's selection
\* ------------------------------------------------------------------------

\* the candidates findSchedule collects for a feature, in index order
CandidatesOf(feature) == scheduleCandidates(normalizeStreet(feature.street_name))

\* C11: with two or more candidates for a non-empty normalized name,
\* findSchedule returns a candidate whose score no candidate exceeds and no
\* earlier candidate equals; when every candidate scores 0 it returns the
\* first candidate, never null.
C11_HighestScoreFirstOfTies ==
    (/\ call.fn = "findSchedule"
     /\ normalizeStreet(call.feature.street_name) # <<>>
     /\ Len(CandidatesOf(call.feature)) >= 2) =>
        LET candidates == CandidatesOf(call.feature)
            scoreOf(i) == matchScore(candidates[i], call.feature)
        IN  IF \A i \in 1..Len(candidates) : scoreOf(i) = 0
            THEN call.schedule = candidates[1]
            ELSE \E i \in 1..Len(candidates) :
                    /\ call.schedule = candidates[i]
                    /\ \A j \in 1..Len(candidates) : scoreOf(j) <= scoreOf(i)
                    /\ \A j \in 1..(i - 1) : scoreOf(j) < scoreOf(i)

\* five candidates, the highest score shared by the last two, lower scores
\* before them: the fourth is returned
C11_Witness ==
    /\ call.fn = "findSchedule"
    /\ Len(CandidatesOf(call.feature)) >= 3
    /\ \E i \in 2..(Len(CandidatesOf(call.feature)) - 1) :
          /\ call.schedule = CandidatesOf(call.feature)[i]
          /\ matchScore(CandidatesOf(call.feature)[i + 1], call.feature)
                = matchScore(call.schedule, call.feature)
          /\ matchScore(CandidatesOf(call.feature)[1], call.feature)
                < matchScore(call.schedule, call.feature)

\* the section text holds one of the two northbound phrases
HasNorthPhrase(entry) ==
    \E p \in DirectionPhrases("N") : Includes(entry.section, p)

\* the section text holds none of the eight directional phrases
NoDirectionalText(entry) ==
    \A d \in {"N", "S", "E", "W"} :
        \A p \in DirectionPhrases(d) : ~Includes(entry.section, p)

\* the section text names the street `name` of the segment
Mentions(entry, name) ==
    normalizeStreet(name) # <<>> /\ Includes(entry.section, normalizeStreet(name))

\* two entries that matchScore cannot tell apart but for the directional
\* text: the same street, and the segment's from and to streets named by
\* both sections or by neither
AlikeButDirection(a, b, feature) ==
    /\ a.street = b.street
    /\ Mentions(a, feature.from_street) = Mentions(b, feature.from_street)
    /\ Mentions(a, feature.to_street) = Mentions(b, feature.to_street)

\* C12: for a segment of direction 'N', of two candidates collected by
\* findSchedule that are alike but for the directional text, the one with
\* a northbound phrase scores strictly more than the one with no directional
\* text, however the candidates entered the set.
C12_NorthPhraseScoresHigher ==
    (/\ call.fn = "findSchedule"
     /\ call.feature.direction_name = "N"
     /\ normalizeStreet(call.feature.street_name) # <<>>) =>
        LET candidates == CandidatesOf(call.feature)
        IN  \A i, j \in 1..Len(candidates) :
               (/\ HasNorthPhrase(candidates[i])
                /\ NoDirectionalText(candidates[j])
                /\ AlikeButDirection(candidates[i], candidates[j], call.feature)) =>
                   matchScore(candidates[i], call.feature)
                      > matchScore(candidates[j], call.feature)

\* a northbound segment whose name is only contained in the street of its
\* two candidates, one with a northbound phrase and one with no directional
\* text: the first is returned
C12_Witness ==
    /\ call.fn = "findSchedule"
    /\ call.feature.direction_name = "N"
    /\ call.feature.street_name = Lohamim
    /\ Len(CandidatesOf(call.feature)) = 2
    /\ HasNorthPhrase(CandidatesOf(call.feature)[1])
    /\ NoDirectionalText(CandidatesOf(call.feature)[2])
    /\ AlikeButDirection(CandidatesOf(call.feature)[1],
                         CandidatesOf(call.feature)[2], call.feature)
    /\ matchScore(CandidatesOf(call.feature)[2], call.feature) = 3
    /\ call.schedule = CandidatesOf(call.feature)[1]

\* ------------------------------------------------------------------------
\* Properties of the override index
\* ------------------------------------------------------------------------

\* the positions of the street-keyed map whose key, normalized, is `name`
KeysNormalizingTo(name) ==
    {i \in 1..Len(SIGN_OVERRIDES) : normalizeStreet(SIGN_OVERRIDES[i][1]) = name}

\* the value at the first of a non-empty set of positions of the map
FirstOf(positions) ==
    SIGN_OVERRIDES[CHOOSE i \in positions : \A j \in positions : i <= j][2]

\* the override the stated order resolves a segment to: by oid; else by the
\* raw street name; else by the first key normalizing to the normalized
\* name; else by the first key normalizing to its alias; else null
ResolvedOverride(feature) ==
    LET street == feature.street_name
        rawKey == {i \in 1..Len(SIGN_OVERRIDES) : SIGN_OVERRIDES[i][1] = street}
        byNorm == KeysNormalizingTo(normalizeStreet(street))
        byAlias == KeysNormalizingTo(aliasOf(normalizeStreet(street)))
    IN  CASE feature.oid \in DOMAIN SIGN_OVERRIDES_BY_OID ->
                 SIGN_OVERRIDES_BY_OID[feature.oid]
          [] OTHER ->
                 IF StrFalsy(street) THEN NullObj
                 ELSE IF rawKey # {} THEN FirstOf(rawKey)
                 ELSE IF byNorm # {} THEN FirstOf(byNorm)
                 ELSE IF byAlias # {} THEN FirstOf(byAlias)
                 ELSE NullObj

\* C13: getSignOverride returns the override of the segment's oid when
\* there is one, else that of the raw street name, else that of the first
\* key normalizing to the normalized name, else that of the first key
\* normalizing to the alias of the normalized name, else null; null too for
\* a segment with no street name and no override by oid.
C13_ResolutionOrder ==
    call.fn = "getSignOverride" =>
        /\ call.override = ResolvedOverride(call.feature)
        /\ (/\ StrFalsy(call.feature.street_name)
            /\ call.feature.oid \notin DOMAIN SIGN_OVERRIDES_BY_OID) =>
                call.override = NullObj

\* a segment with an override by oid and another under its raw street name:
\* the one by oid is returned
C13_Witness ==
    /\ call.fn = "getSignOverride"
    /\ call.feature.oid \in DOMAIN SIGN_OVERRIDES_BY_OID
    /\ \E i \in 1..Len(SIGN_OVERRIDES) :
          /\ SIGN_OVERRIDES[i][1] = call.feature.street_name
          /\ SIGN_OVERRIDES[i][2].report # SIGN_OVERRIDES_BY_OID[call.feature.oid].report
    /\ call.override = SIGN_OVERRIDES_BY_OID[call.feature.oid]

\* the stored report counts for the index: decoded, with a payload
Qualifies(r) == r.status = "decoded" /\ r.decodedHours # NullObj

\* the positions in storage of the qualifying reports that have the key:
\* a segment oid among the featureIds, or the non-empty trimmed street of a
\* report without featureIds
ReportsOfOid(oid) ==
    {i \in 1..Len(storage) :
        /\ Qualifies(storage[i])
        /\ trim(storage[i].street) # <<>>
        /\ \E j \in 1..Len(storage[i].featureIds) : storage[i].featureIds[j] = oid}

ReportsOfStreet(key) ==
    {i \in 1..Len(storage) :
        /\ Qualifies(storage[i])
        /\ Len(storage[i].featureIds) = 0
        /\ key # <<>>
        /\ trim(storage[i].street) = key}

\* the report of the latest submission timestamp among those at `positions`
Latest(positions) ==
    storage[CHOOSE i \in positions :
               \A j \in positions : storage[j].timestamp <= storage[i].timestamp]

\* the override is the one built from the report, its hours unmerged
BuiltFrom(override, r) ==
    /\ override.report = r.id
    /\ override.hours = r.decodedHours
    /\ override.street = r.street
    /\ override.timestamp = r.timestamp

\* the value of the street-keyed map under `key`
StreetOverride(key) ==
    SIGN_OVERRIDES[CHOOSE i \in 1..Len(SIGN_OVERRIDES) : SIGN_OVERRIDES[i][1] = key][2]

StreetKeys == {SIGN_OVERRIDES[i][1] : i \in 1..Len(SIGN_OVERRIDES)}

\* C14: the index holds a key exactly when some stored report that is
\* decoded and has a payload has that key, and the override under the key is
\* built from the one of them submitted last, with that report's hours;
\* other reports contribute nothing.
C14_LastWriteWins ==
    /\ \A oid \in SegmentOids \cup DOMAIN SIGN_OVERRIDES_BY_OID :
          IF ReportsOfOid(oid) = {}
          THEN oid \notin DOMAIN SIGN_OVERRIDES_BY_OID
          ELSE /\ oid \in DOMAIN SIGN_OVERRIDES_BY_OID
               /\ BuiltFrom(SIGN_OVERRIDES_BY_OID[oid], Latest(ReportsOfOid(oid)))
    /\ \A key \in StreetKeys \cup {trim(storage[i].street) : i \in 1..Len(storage)} :
          IF ReportsOfStreet(key) = {}
          THEN key \notin StreetKeys
          ELSE /\ key \in StreetKeys
               /\ BuiltFrom(StreetOverride(key), Latest(ReportsOfStreet(key)))
    /\ \A i, j \in 1..Len(SIGN_OVERRIDES) :
          SIGN_OVERRIDES[i][1] = SIGN_OVERRIDES[j][1] => i = j

\* two decoded reports of one street with different hours, the one submitted
\* last stored first: the index holds the hours of the one submitted last
C14_Witness ==
    /\ Len(storage) = 2
    /\ storage[1].timestamp > storage[2].timestamp
    /\ ReportsOfStreet(trim(storage[1].street)) = {1, 2}
    /\ storage[1].decodedHours # storage[2].decodedHours
    /\ StreetOverride(trim(storage[1].street)).hours = storage[1].decodedHours

\* the overrides held by the two maps
StoredOverrides ==
    {SIGN_OVERRIDES[i][2] : i \in 1..Len(SIGN_OVERRIDES)}
        \cup {SIGN_OVERRIDES_BY_OID[oid] : oid \in DOMAIN SIGN_OVERRIDES_BY_OID}

\* C15: after every add, update and delete call, failed saves and unknown
\* ids included, the two maps are what a rebuild from the reports now in
\* storage produces, and every override in them is built from a report that
\* is in storage and decoded.
C15_IndexIsFresh ==
    /\ SIGN_OVERRIDES = foldByStreet(decodedReports(storage), 1, <<>>)
    /\ SIGN_OVERRIDES_BY_OID = byOidOf(decodedReports(storage))
    /\ \A override \in StoredOverrides :
          \E i \in 1..Len(storage) :
              /\ Qualifies(storage[i])
              /\ BuiltFrom(override, storage[i])

\* the report of the last add call is not in storage (it was deleted, or its
\* save failed), another report is decoded and indexed, and the index holds
\* nothing else
C15_Witness ==
    /\ clock > 0
    /\ \A i \in 1..Len(storage) : storage[i].id # clock
    /\ Len(storage) = 1
    /\ Qualifies(storage[1])
    /\ Cardinality(StoredOverrides) = 1

\* ------------------------------------------------------------------------
\* Properties of the camera index
\* ------------------------------------------------------------------------

\* buildCameraSegmentIndex has run over the cameras of the feed
Built == call.fn = "buildCameraSegmentIndex"

SameStreet(cam, lane) ==
    LET camStreet == normalizeStreet(cam.t_rechov1)
        laneName  == normalizeStreet(lane.street_name)
    IN  /\ camStreet # <<>>
        /\ ~StrFalsy(lane.street_name)
        /\ \/ laneName = camStreet
           \/ aliasOf(laneName) = camStreet
           \/ laneName = aliasOf(camStreet)
           \/ aliasOf(laneName) = aliasOf(camStreet)

\* the oids of the lanes of the camera's street nearer than the snap radius
WithinRadius(cam) ==
    {CameraLanes[i].oid : i \in {j \in 1..Len(CameraLanes) :
        /\ cam.located
        /\ SameStreet(cam, CameraLanes[j])
        /\ cam.dist[CameraLanes[j].oid] < 60}}

laneOf(oid) == CameraLanes[CHOOSE i \in 1..Len(CameraLanes) : CameraLanes[i].oid = oid]

\* C17: a camera with exactly two lanes of its street within the radius,
\* of two different directions: with no house number and the two distances
\* less than 10 apart (5, say) it is assigned both lanes, nearer first,
\* bidirectional; with a house number and the distances 3 or more apart it
\* is assigned the nearer lane alone, not bidirectional.
C17_BidirectionalRule ==
    Built =>
        \A k \in 1..Len(allCameras) :
            LET cam == allCameras[k]
                W   == WithinRadius(cam)
            IN  \A near \in W : \A far \in W :
                   (/\ W = {near, far}
                    /\ cam.dist[near] < cam.dist[far]
                    /\ laneOf(near).direction_name # ""
                    /\ laneOf(far).direction_name # ""
                    /\ laneOf(near).direction_name # laneOf(far).direction_name) =>
                       /\ (~(cam.ms_bayit1 > 0) /\ cam.dist[far] - cam.dist[near] < 10) =>
                             /\ cam.OBJECTID \in DOMAIN cameraSegmentMap
                             /\ cameraSegmentMap[cam.OBJECTID]
                                   = Assignment(<<near, far>>, TRUE)
                       /\ (cam.ms_bayit1 > 0 /\ cam.dist[far] - cam.dist[near] >= 3) =>
                             /\ cam.OBJECTID \in DOMAIN cameraSegmentMap
                             /\ cameraSegmentMap[cam.OBJECTID]
                                   = Assignment(<<near>>, FALSE)

\* two cameras between the two opposing lanes, 5 apart at each: the one
\* with no house number has both lanes, the one with a house number the
\* nearer
C17_Witness ==
    /\ Built
    /\ Len(allCameras) = 2
    /\ allCameras[1].ms_bayit1 = NullNum
    /\ allCameras[1].dist[201] = 7 /\ allCameras[1].dist[202] = 2
    /\ cameraSegmentMap[1] = Assignment(<<202, 201>>, TRUE)
    /\ allCameras[2].ms_bayit1 = 8
    /\ allCameras[2].dist[201] = 2 /\ allCameras[2].dist[202] = 7
    /\ cameraSegmentMap[2] = Assignment(<<201>>, FALSE)

\* C18: a camera with no lane of its street within the radius has no entry;
\* a camera whose lanes within the radius are one, or all of one direction,
\* is assigned one lane, a nearest of them, not bidirectional.
C18_SingleDirectionRule ==
    Built =>
        \A k \in 1..Len(allCameras) :
            LET cam == allCameras[k]
                W   == WithinRadius(cam)
            IN  /\ W = {} => cam.OBJECTID \notin DOMAIN cameraSegmentMap
                /\ (/\ W # {}
                    /\ \/ Cardinality(W) = 1
                       \/ \A a \in W : \A b \in W :
                             laneOf(a).direction_name = laneOf(b).direction_name) =>
                       /\ cam.OBJECTID \in DOMAIN cameraSegmentMap
                       /\ ~cameraSegmentMap[cam.OBJECTID].bidirectional
                       /\ Len(cameraSegmentMap[cam.OBJECTID].segments) = 1
                       /\ cameraSegmentMap[cam.OBJECTID].segments[1] \in W
                       /\ \A a \in W :
                             cam.dist[cameraSegmentMap[cam.OBJECTID].segments[1]]
                                <= cam.dist[a]

\* a camera with two northbound lanes within the radius, the second of the
\* feed the nearer: it is assigned that one
C18_Witness ==
    /\ Built
    /\ Len(allCameras) = 1
    /\ WithinRadius(allCameras[1]) = {201, 203}
    /\ allCameras[1].dist[203] < allCameras[1].dist[201]
    /\ cameraSegmentMap[1] = Assignment(<<203>>, FALSE)

\* ------------------------------------------------------------------------
\* The GPS low-pass filter (app.js 1077-1250)
\*
\* The observer moves along a meridian: latitudes are centimetres north of
\* an origin, so that distanceTo is the difference of two latitudes, and the
\* longitude is one value.  Times are milliseconds, speeds millimetres per
\* second, bearings hundredths of a degree; a product with the smoothing
\* factor is rounded down to the unit.
\* ------------------------------------------------------------------------

\* GPS_LP_ALPHA = 0.35, as a fraction
GPS_LP_ALPHA_NUM == 7
GPS_LP_ALPHA_DEN == 20

\* 1.5 m/s
GPS_MIN_SPEED_FOR_HEADING == 1500

\* 3 m
GPS_MIN_MOVE_METERS == 300

\* value + alpha * (target - value), alpha = num / den
ema(value, target, num, den) == value + ((num * (target - value)) \div den)

\* L.latLng(lat1, lng1).distanceTo(L.latLng(lat2, lng2)) on the meridian
distanceTo(lat1, lng1, lat2, lng2) == Abs(lat2 - lat1)

\* bearingBetween on the meridian: north is 0, south is 180
bearingBetween(lat1, lng1, lat2, lng2) == IF lat2 >= lat1 THEN 0 ELSE 18000

\* what updateFilteredSpeedAndBearing leaves in the filter state
Filter(speed, bearing, prevLat, prevLng, last, divided) ==
    [filteredSpeed |-> speed, filteredBearing |-> bearing,
     prevFilteredLat |-> prevLat, prevFilteredLng |-> prevLng,
     lastFilteredTime |-> last, divided |-> divided]

\* lines 1233-1245: the bearing after a move at the new speed
smoothBearing(speed, lat, lng) ==
    LET rawBearing == bearingBetween(prevFilteredLat, prevFilteredLng, lat, lng)
        diff0      == rawBearing - filteredBearing
        diff1      == IF diff0 > 18000 THEN diff0 - 36000 ELSE diff0
        diff       == IF diff1 < 0 - 18000 THEN diff1 + 36000 ELSE diff1
    IN  IF speed < GPS_MIN_SPEED_FOR_HEADING THEN filteredBearing
        ELSE IF filteredBearing = NullNum THEN rawBearing
        ELSE (filteredBearing
                + ((GPS_LP_ALPHA_NUM * diff) \div GPS_LP_ALPHA_DEN)
                + 36000) % 36000

\* updateFilteredSpeedAndBearing with a non-positive elapsed time taken as
\* jitter: the time of the sample is kept
updateKeepingTime(lat, lng, now, last) ==
    LET dist == distanceTo(prevFilteredLat, prevFilteredLng, lat, lng)
        instantSpeed == (dist * 10000) \div (now - last)
        speed == IF filteredSpeed = 0 THEN instantSpeed
                 ELSE ema(filteredSpeed, instantSpeed,
                          GPS_LP_ALPHA_NUM, GPS_LP_ALPHA_DEN)
    IN  IF prevFilteredLat = NullNum
        THEN Filter(filteredSpeed, filteredBearing, lat, lng, now, FALSE)
        ELSE IF now - last <= 0 \/ dist < GPS_MIN_MOVE_METERS
        THEN Filter(filteredSpeed, filteredBearing,
                    prevFilteredLat, prevFilteredLng, now, FALSE)
        ELSE Filter(speed, smoothBearing(speed, lat, lng), lat, lng, now, TRUE)

\* updateFilteredSpeedAndBearing (lines 1206-1250), called with
\* lastFilteredTime = last: the filter state it leaves, and whether it
\* divided by the elapsed time (line 1227)
updateFilteredSpeedAndBearing(lat, lng, now, last) ==
    LET dist == distanceTo(prevFilteredLat, prevFilteredLng, lat, lng)
        instantSpeed == (dist * 10000) \div (now - last)
        speed == IF filteredSpeed = 0 THEN instantSpeed
                 ELSE ema(filteredSpeed, instantSpeed,
                          GPS_LP_ALPHA_NUM, GPS_LP_ALPHA_DEN)
    IN  IF prevFilteredLat = NullNum
        THEN Filter(filteredSpeed, filteredBearing, lat, lng, now, FALSE)
        ELSE IF now - last <= 0
        THEN Filter(filteredSpeed, filteredBearing,
                    prevFilteredLat, prevFilteredLng, last, FALSE)
        ELSE IF dist < GPS_MIN_MOVE_METERS
        THEN Filter(filteredSpeed, filteredBearing,
                    prevFilteredLat, prevFilteredLng, now, FALSE)
        ELSE Filter(speed, smoothBearing(speed, lat, lng), lat, lng, now, TRUE)

\* pos.coords.latitude: three points, 10 m and 40 m north of the first
RawLats == {0, 1000, 4000}

\* pos.coords.longitude
Meridian == 0

\* pos.coords.accuracy, in metres: better and worse than 15
Accuracies == {5, 20}

\* Date.now() at a sample; the clock may stand still or be set back
\* between two samples
MaxGpsTime == 3
GpsTimes == {1000 * t : t \in 1..MaxGpsTime}

\* the number of samples followed
MaxSamples == 4

\* ------------------------------------------------------------------------
\* The heading, the segment driven on and the driving alerts
\* (app.js 1302-1596)
\*
\* The lanes and the cameras lie on the meridian of the samples: a point of
\* a path is its latitude, in centimetres.
\* ------------------------------------------------------------------------

\* the distance of a point to a polyline without a segment
Infinity == 1000000000

\* feature.geometry with paths, and a geometry without the paths member;
\* a feature without geometry has NullObj
Geometry(paths) == [hasPaths |-> TRUE, paths |-> paths]

NoPaths == [hasPaths |-> FALSE, paths |-> <<>>]

Feature(attributes, geometry) ==
    [attributes |-> attributes, geometry |-> geometry]

\* feature.geometry && feature.geometry.paths (lines 1345, 1497, 1571)
hasPaths(feature) ==
    feature.geometry # NullObj /\ feature.geometry.hasPaths

\* distPointToSegment (lines 1390-1399) on the meridian: the distance to a,
\* or to the closest point between a and b
distPointToSegment(p, a, b) ==
    IF a = b THEN Abs(p - a)
    ELSE IF p < Min(a, b) THEN Min(a, b) - p
    ELSE IF p > a /\ p > b THEN IF a > b THEN p - a ELSE p - b
    ELSE 0

\* distanceToPolyline (lines 1374-1385)
distanceToPolyline(point, paths) ==
    LET dists == UNION { { distPointToSegment(point, paths[k][i], paths[k][i + 1]) :
                             i \in 1..(Len(paths[k]) - 1) } :
                         k \in 1..Len(paths) }
    IN  IF dists = {} THEN Infinity
        ELSE CHOOSE d \in dists : \A e \in dists : d <= e

\* dirMap[dir] of lines 1353 and 1507, in hundredths of a degree; NullNum
\* is undefined
dirMap(dir) ==
    CASE dir = "N"  -> 0
      [] dir = "NE" -> 4500
      [] dir = "E"  -> 9000
      [] dir = "SE" -> 13500
      [] dir = "S"  -> 18000
      [] dir = "SW" -> 22500
      [] dir = "W"  -> 27000
      [] dir = "NW" -> 31500
      [] OTHER      -> NullNum

\* the radius of line 1350
LANE_HEADING_RADIUS == 3000

\* the loop of lines 1344-1358 from feature k on
RECURSIVE nearestDirFrom(_, _, _, _)
nearestDirFrom(userPos, k, minDist, nearestDir) ==
    IF k > Len(allFeatures) THEN nearestDir
    ELSE LET feature == allFeatures[k]
             dir     == feature.attributes.direction_name
             dist    == distanceToPolyline(userPos, feature.geometry.paths)
         IN  IF ~hasPaths(feature) \/ dir = ""
             THEN nearestDirFrom(userPos, k + 1, minDist, nearestDir)
             ELSE IF dist < minDist /\ dist < LANE_HEADING_RADIUS
             THEN nearestDirFrom(userPos, k + 1, dist,
                      IF dirMap(dir) # NullNum THEN dirMap(dir) ELSE nearestDir)
             ELSE nearestDirFrom(userPos, k + 1, minDist, nearestDir)

\* findNearestLaneDirection (lines 1338-1361)
findNearestLaneDirection(userPos) ==
    IF Len(allFeatures) = 0 THEN NullNum
    ELSE nearestDirFrom(userPos, 1, Infinity, NullNum)

\* calculateHeading with the bearing of the filter preferred to the lane
headingBearingFirst(userPos, speed, bearing) ==
    LET nearestDir == findNearestLaneDirection(userPos)
    IN  IF bearing # NullNum /\ speed >= GPS_MIN_SPEED_FOR_HEADING THEN bearing
        ELSE IF nearestDir # NullNum THEN nearestDir
        ELSE currentHeading

\* calculateHeading (lines 1302-1316) once the filter holds speed and
\* bearing
calculateHeading(userPos, speed, bearing) ==
    LET nearestDir == findNearestLaneDirection(userPos)
    IN  IF nearestDir # NullNum THEN nearestDir
        ELSE IF bearing # NullNum /\ speed >= GPS_MIN_SPEED_FOR_HEADING
        THEN bearing
        ELSE currentHeading

ALERT_COOLDOWN_MS == 300000

\* 40 m and 100 m
SEGMENT_MATCH_RADIUS == 4000

CAMERA_ALERT_RADIUS == 10000

\* the loop of lines 1496-1503 from feature k on: the index of the best
\* feature so far, 0 for none, and its distance
RECURSIVE bestSegmentFrom(_, _, _, _)
bestSegmentFrom(userPos, k, best, bestDist) ==
    IF k > Len(allFeatures) THEN [best |-> best, bestDist |-> bestDist]
    ELSE LET feature == allFeatures[k]
             dist    == distanceToPolyline(userPos, feature.geometry.paths)
         IN  IF ~hasPaths(feature)
             THEN bestSegmentFrom(userPos, k + 1, best, bestDist)
             ELSE IF dist < bestDist /\ dist < SEGMENT_MATCH_RADIUS
             THEN bestSegmentFrom(userPos, k + 1, k, dist)
             ELSE bestSegmentFrom(userPos, k + 1, best, bestDist)

\* findCurrentSegment (lines 1492-1521): null, or the feature, by its place
\* in allFeatures, with its distance and the direction of travel
findCurrentSegment(userPos, bearing) ==
    LET found == bestSegmentFrom(userPos, 1, 0, Infinity)
        dir   == allFeatures[found.best].attributes.direction_name
    IN  IF found.best = 0 THEN NullObj
        ELSE [index |-> found.best,
              feature |-> allFeatures[found.best],
              dist |-> found.bestDist,
              travelDirection |->
                  IF dir # "" /\ dirMap(dir) # NullNum THEN dirMap(dir)
                  ELSE bearing]

\* bearingBetween over the first point of the first path and the last point
\* of the last path (lines 1542-1548, 1580-1582)
bearingAlong(paths) ==
    bearingBetween(paths[1][1], Meridian,
                   paths[Len(paths)][Len(paths[Len(paths)])], Meridian)

\* the reads of lines 1542-1548 and 1579-1582 meet undefined: there is no
\* path, or the first or the last path has no point
readsUndefined(paths) ==
    \/ Len(paths) = 0
    \/ Len(paths[1]) = 0
    \/ Len(paths[Len(paths)]) = 0

\* what findNextSegment answers: the place of the next feature in
\* allFeatures, 0 for null; or a TypeError thrown
Answer(next) == [threw |-> FALSE, next |-> next]

Thrown == [threw |-> TRUE, next |-> 0]

\* the loop of lines 1567-1593 from feature k on
RECURSIVE nextSegmentFrom(_, _, _, _, _)
nextSegmentFrom(current, targetJunction, k, bestNext, bestDist) ==
    IF k > Len(allFeatures) THEN Answer(bestNext)
    ELSE LET feature == allFeatures[k]
             a       == feature.attributes
             p       == feature.geometry.paths
             raw     == IF current.travelDirection # NullNum
                        THEN Abs(current.travelDirection - bearingAlong(p))
                        ELSE 0
             dirDiff == IF raw > 18000 THEN 36000 - raw ELSE raw
         IN  IF k = current.index
                   \/ a.street_name # current.feature.attributes.street_name
                   \/ ~hasPaths(feature)
                   \/ (a.from_street # targetJunction /\ a.to_street # targetJunction)
             THEN nextSegmentFrom(current, targetJunction, k + 1, bestNext, bestDist)
             ELSE IF readsUndefined(p) THEN Thrown
             ELSE IF dirDiff < bestDist
             THEN nextSegmentFrom(current, targetJunction, k + 1, k, dirDiff)
             ELSE nextSegmentFrom(current, targetJunction, k + 1, bestNext, bestDist)

\* findNextSegment (lines 1531-1596) for a current segment that is not null
findNextSegment(current) ==
    LET attrs   == current.feature.attributes
        paths   == current.feature.geometry.paths
        diff0   == current.travelDirection - bearingAlong(paths)
        diff1   == IF diff0 > 18000 THEN diff0 - 36000 ELSE diff0
        diff    == IF diff1 < 0 - 18000 THEN diff1 + 36000 ELSE diff1
        drivingForward ==
            IF current.travelDirection # NullNum THEN Abs(diff) < 9000 ELSE TRUE
        targetJunction ==
            IF drivingForward THEN attrs.to_street ELSE attrs.from_street
    IN  IF StrFalsy(attrs.street_name) THEN Answer(0)
        ELSE IF Len(paths) = 0 \/ Len(paths[1]) < 2 THEN Answer(0)
        ELSE IF readsUndefined(paths) THEN Thrown
        ELSE IF StrFalsy(targetJunction) THEN Answer(0)
        ELSE nextSegmentFrom(current, targetJunction, 1, 0, Infinity)

\* the lanes of CameraLanes with the junctions at their ends and their
\* geometry: the northbound and the southbound lane of a block, the
\* northbound lane of the next block, a two-way lane south of them, and two
\* lanes far away
DriveLanes ==
    << Feature(Segment(201, IbnGabirol, Marmorek, Arlozorov, "N", ACTIVE),
               Geometry(<< <<9100, 9600>> >>)),
       Feature(Segment(202, IbnGabirol, Arlozorov, Marmorek, "S", ACTIVE),
               Geometry(<< <<9500, 8850>> >>)),
       Feature(Segment(203, IbnGabirol, Arlozorov, HaYarkon, "N", ACTIVE),
               Geometry(<< <<9600, 20000>> >>)),
       Feature(Segment(204, NamirMordechai, NullStr, NullStr, "S", NullStr),
               Geometry(<< <<50000, 45000>> >>)),
       Feature(Segment(205, Yefet, NullStr, NullStr, "", ACTIVE),
               Geometry(<< <<5500, 5800>>, <<5800, 6000>> >>)),
       Feature(Segment(206, NullStr, NullStr, NullStr, "N", ACTIVE),
               Geometry(<< <<60000, 61000>> >>)) >>

\* DriveLanes with the geometry of the lane `oid` replaced
withGeometry(oid, geometry) ==
    [i \in 1..Len(DriveLanes) |->
        IF DriveLanes[i].attributes.oid = oid
        THEN Feature(DriveLanes[i].attributes, geometry)
        ELSE DriveLanes[i]]

\* no geometry, no paths, no path, a path without a point
Malformed ==
    { NullObj, NoPaths, Geometry(<<>>), Geometry(<< <<>> >>) }

\* findSchedule reads the attributes and the static tables only: its value
\* for the lanes, computed once
laneSchedule ==
    [i \in 1..Len(DriveLanes) |-> findSchedule(DriveLanes[i].attributes)]

\* new Date() when Date.now() is ms: the clock counts from a Sunday midnight
dateOf(ms) ==
    [day     |-> (ms \div 86400000) % 7,
     hours   |-> (ms \div 3600000) % 24,
     minutes |-> (ms \div 60000) % 60]

\* getLaneStatus(feature, now) (line 1432) of a lane of allFeatures
driveLaneStatus(feature, now) ==
    laneStatusWith(getSignOverride(feature.attributes),
                   laneSchedule[CHOOSE i \in 1..Len(DriveLanes) :
                                    DriveLanes[i].attributes = feature.attributes],
                   feature.attributes, now)

\* the keys of alertCooldowns (lines 1436, 1475); OBJECTID is positive
LaneKey(oid) == <<"lane", oid>>

CamKey(cam) == <<"cam", IF cam.ms_atar > 0 THEN cam.ms_atar ELSE cam.OBJECTID>>

\* lines 1437 and 1476: no alert under the key yet, or one long enough ago
cooldownElapsed(cooldowns, key, nowMs) ==
    \/ key \notin DOMAIN cooldowns
    \/ cooldowns[key] = 0
    \/ nowMs - cooldowns[key] >= ALERT_COOLDOWN_MS

Alert(type, id, dist) == [type |-> type, id |-> id, dist |-> dist]

\* lines 1456-1476 without the test of the distance
qualifiesAtAnyDistance(cam, userPos, nowMs, candidateOids, cooldowns) ==
    /\ cam.located
    /\ StrFalsy(cam.status) \/ cam.status = ACTIVE
    /\ cam.OBJECTID \in DOMAIN cameraSegmentMap
    /\ \E i \in 1..Len(cameraSegmentMap[cam.OBJECTID].segments) :
          cameraSegmentMap[cam.OBJECTID].segments[i] \in candidateOids
    /\ cooldownElapsed(cooldowns, CamKey(cam), nowMs)

\* lines 1456-1476 for one camera: it is the one to alert
qualifies(cam, userPos, nowMs, candidateOids, cooldowns) ==
    /\ cam.located
    /\ StrFalsy(cam.status) \/ cam.status = ACTIVE
    /\ cam.OBJECTID \in DOMAIN cameraSegmentMap
    /\ \E i \in 1..Len(cameraSegmentMap[cam.OBJECTID].segments) :
          cameraSegmentMap[cam.OBJECTID].segments[i] \in candidateOids
    /\ Abs(userPos - cam.lat) <= CAMERA_ALERT_RADIUS
    /\ cooldownElapsed(cooldowns, CamKey(cam), nowMs)

\* the loop of lines 1454-1483 leaving at the nearest camera that qualifies
nearestCameraFrom(userPos, nowMs, candidateOids, cooldowns, k) ==
    LET Q == {i \in 1..Len(allCameras) :
                 qualifies(allCameras[i], userPos, nowMs, candidateOids, cooldowns)}
    IN  IF Q = {} THEN 0
        ELSE CHOOSE i \in Q : \A j \in Q :
                \/ Abs(userPos - allCameras[i].lat) < Abs(userPos - allCameras[j].lat)
                \/ /\ Abs(userPos - allCameras[i].lat) = Abs(userPos - allCameras[j].lat)
                   /\ i <= j

\* the loop of lines 1454-1483 from camera k on: the place in allCameras of
\* the camera at which it breaks, 0 when it ends without an alert
RECURSIVE cameraAlertFrom(_, _, _, _, _)
cameraAlertFrom(userPos, nowMs, candidateOids, cooldowns, k) ==
    IF k > Len(allCameras) THEN 0
    ELSE IF qualifies(allCameras[k], userPos, nowMs, candidateOids, cooldowns)
    THEN k
    ELSE cameraAlertFrom(userPos, nowMs, candidateOids, cooldowns, k + 1)

\* what checkDrivingAlerts leaves: currentSegment by its oid, the
\* cooldowns, the alerts spoken, and whether it threw
Outcome(segment, cooldowns, spokenNow, threw) ==
    [currentSegment |-> segment, alertCooldowns |-> cooldowns,
     alerts |-> spokenNow, threw |-> threw]

\* line 1435 without the test of the status
dueWhateverStatus(blocked, cooldowns, key, nowMs) ==
    cooldownElapsed(cooldowns, key, nowMs)

\* lines 1435-1437 without the test of the cooldown
dueWithoutCooldown(blocked, cooldowns, key, nowMs) == blocked

\* lines 1435-1437: the alert of the blocked lane is due
laneAlertDue(blocked, cooldowns, key, nowMs) ==
    blocked /\ cooldownElapsed(cooldowns, key, nowMs)

\* lines 1454-1483 once the loop has stopped at camera k of allCameras, or
\* ended with k = 0
afterCameras(oid, userPos, nowMs, cooldowns, spokenNow, k) ==
    IF k = 0 THEN Outcome(oid, cooldowns, spokenNow, FALSE)
    ELSE Outcome(oid, put(cooldowns, CamKey(allCameras[k]), nowMs),
                 Append(spokenNow,
                        Alert("camera", allCameras[k].OBJECTID,
                              Abs(userPos - allCameras[k].lat))),
                 FALSE)

\* lines 1446-1453 once findNextSegment has answered nextSeg
withNextSegment(oid, userPos, nowMs, cooldowns, spokenNow, nextSeg) ==
    IF nextSeg.threw THEN Outcome(oid, cooldowns, spokenNow, TRUE)
    ELSE afterCameras(oid, userPos, nowMs, cooldowns, spokenNow,
             cameraAlertFrom(userPos, nowMs,
                 {oid} \cup IF nextSeg.next = 0 THEN {}
                            ELSE {allFeatures[nextSeg.next].attributes.oid},
                 cooldowns, 1))

\* lines 1434-1446 once the alert of the lane is known to be due or not
withLaneAlert(segment, userPos, nowMs, due) ==
    IF Len(allCameras) = 0
    THEN Outcome(segment.feature.attributes.oid,
                 IF due THEN put(alertCooldowns,
                                 LaneKey(segment.feature.attributes.oid), nowMs)
                 ELSE alertCooldowns,
                 IF due THEN <<Alert("lane", segment.feature.attributes.oid,
                                     segment.dist)>>
                 ELSE <<>>,
                 FALSE)
    ELSE withNextSegment(segment.feature.attributes.oid, userPos, nowMs,
             IF due THEN put(alertCooldowns,
                             LaneKey(segment.feature.attributes.oid), nowMs)
             ELSE alertCooldowns,
             IF due THEN <<Alert("lane", segment.feature.attributes.oid,
                                 segment.dist)>>
             ELSE <<>>,
             findNextSegment(segment))

\* lines 1427-1433 once findCurrentSegment has answered segment
onSegment(segment, userPos, nowMs) ==
    IF segment = NullObj THEN Outcome(NullNum, alertCooldowns, <<>>, FALSE)
    ELSE withLaneAlert(segment, userPos, nowMs,
             laneAlertDue(driveLaneStatus(segment.feature, dateOf(nowMs)).blocked,
                          alertCooldowns,
                          LaneKey(segment.feature.attributes.oid), nowMs))

\* checkDrivingAlerts (lines 1421-1484) at the filtered position, when
\* Date.now() is nowMs and the filter holds bearing
checkDrivingAlerts(userPos, nowMs, bearing) ==
    IF Len(allFeatures) = 0
    THEN Outcome(currentSegment, alertCooldowns, <<>>, FALSE)
    ELSE onSegment(findCurrentSegment(userPos, bearing), userPos, nowMs)

\* speakHebrew of line 1440 heard: the time of the last alert of each lane
\* alerted
heard(spokenNow, nowMs) ==
    [oid \in DOMAIN spoken \cup
             {spokenNow[i].id : i \in {j \in 1..Len(spokenNow) :
                                          spokenNow[j].type = "lane"}} |->
        IF \E i \in 1..Len(spokenNow) :
              spokenNow[i].type = "lane" /\ spokenNow[i].id = oid
        THEN nowMs
        ELSE spoken[oid]]

\* lines 1171-1199 once updateFilteredSpeedAndBearing has left `after` and
\* checkDrivingAlerts has left `checked`
sampled(rawLat, rawLng, lat, lng, now, after, heading, checked) ==
    /\ filteredLat' = lat
    /\ filteredLng' = lng
    /\ filteredSpeed' = after.filteredSpeed
    /\ filteredBearing' = after.filteredBearing
    /\ prevFilteredLat' = after.prevFilteredLat
    /\ prevFilteredLng' = after.prevFilteredLng
    /\ lastFilteredTime' = after.lastFilteredTime
    /\ currentHeading' = heading
    /\ currentSegment' = checked.currentSegment
    /\ alertCooldowns' = checked.alertCooldowns
    /\ alerts' = checked.alerts
    /\ spoken' = heard(checked.alerts, now)
    /\ call' = [fn |-> "onGpsPosition", rawLat |-> rawLat, rawLng |-> rawLng,
                now |-> now, divided |-> after.divided,
                threw |-> checked.threw,
                samples |-> IF call = NoCall THEN 1 ELSE call.samples + 1]

\* lines 1171-1199 at the filtered position
filtered(rawLat, rawLng, lat, lng, now, after) ==
    sampled(rawLat, rawLng, lat, lng, now, after,
            calculateHeading(lat, after.filteredSpeed, after.filteredBearing),
            IF voiceEnabled
            THEN checkDrivingAlerts(lat, now, after.filteredBearing)
            ELSE Outcome(currentSegment, alertCooldowns, <<>>, FALSE))

\* onGpsPosition (lines 1148-1199): the low-pass filter of the position,
\* updateFilteredSpeedAndBearing over the filtered position, the heading,
\* and the alerts when the voice is enabled
OnGpsPosition(rawLat, rawLng, accuracy, now) ==
    LET first == filteredLat = NullNum
        num   == IF accuracy < 15 THEN GPS_LP_ALPHA_NUM * 2 ELSE GPS_LP_ALPHA_NUM
        den   == GPS_LP_ALPHA_DEN * 2
        lat   == IF first THEN rawLat ELSE ema(filteredLat, rawLat, num, den)
        lng   == IF first THEN rawLng ELSE ema(filteredLng, rawLng, num, den)
        last  == IF first THEN now ELSE lastFilteredTime
    IN  /\ call.fn \in {"none", "onGpsPosition", "stopGps"}
        /\ call # NoCall => call.samples < MaxSamples
        /\ filtered(rawLat, rawLng, lat, lng, now,
                    updateFilteredSpeedAndBearing(lat, lng, now, last))
        /\ UNCHANGED <<storage, SIGN_OVERRIDES, SIGN_OVERRIDES_BY_OID, clock,
                       renderedAt, laneStatus, camVars, voiceEnabled,
                       allFeatures, simVars, loadVars>>

\* stopGps (lines 1117-1141): the filter state, the heading and the current
\* segment are reset
StopGps ==
    /\ call.fn = "onGpsPosition"
    /\ filteredLat' = NullNum
    /\ filteredLng' = NullNum
    /\ filteredSpeed' = 0
    /\ filteredBearing' = NullNum
    /\ lastFilteredTime' = 0
    /\ prevFilteredLat' = NullNum
    /\ prevFilteredLng' = NullNum
    /\ currentHeading' = NullNum
    /\ currentSegment' = NullNum
    /\ call' = [fn |-> "stopGps", samples |-> call.samples]
    /\ UNCHANGED <<storage, SIGN_OVERRIDES, SIGN_OVERRIDES_BY_OID, clock,
                   renderedAt, laneStatus, camVars, voiceEnabled,
                   alertCooldowns, alerts, allFeatures, spoken, simVars, loadVars>>

NextGps ==
    \/ \E rawLat \in RawLats : \E accuracy \in Accuracies : \E now \in GpsTimes :
          OnGpsPosition(rawLat, Meridian, accuracy, now)
    \/ StopGps

SpecGps == Init /\ [][NextGps]_vars

\* ------------------------------------------------------------------------
\* Properties of the GPS filter
\* ------------------------------------------------------------------------

\* C19: a sample whose time is not after lastFilteredTime leaves
\* filteredSpeed, filteredBearing, prevFilteredLat, prevFilteredLng and
\* lastFilteredTime as they were, and nothing is divided by the elapsed
\* time.
C19_NonPositiveElapsedSkips ==
    [][(/\ call'.fn = "onGpsPosition"
        /\ call'.now - lastFilteredTime <= 0) =>
           /\ filteredSpeed' = filteredSpeed
           /\ filteredBearing' = filteredBearing
           /\ prevFilteredLat' = prevFilteredLat
           /\ prevFilteredLng' = prevFilteredLng
           /\ lastFilteredTime' = lastFilteredTime
           /\ ~call'.divided]_vars

\* after a sample timed before the last accepted one: the filtered position
\* is more than 3 m from the previous one, the speed was left alone
C19_Witness ==
    /\ call.fn = "onGpsPosition"
    /\ call.now < lastFilteredTime
    /\ ~call.divided
    /\ filteredSpeed > 0
    /\ Abs(filteredLat - prevFilteredLat) >= GPS_MIN_MOVE_METERS

\* C20: a sample at the latitude and longitude of the sample before it,
\* timed after lastFilteredTime, with filteredSpeed positive, leaves
\* filteredSpeed strictly lower.
C20_StationarySpeedDecreases ==
    [][(/\ call.fn = "onGpsPosition"
        /\ call'.fn = "onGpsPosition"
        /\ call'.rawLat = call.rawLat
        /\ call'.rawLng = call.rawLng
        /\ call'.now - lastFilteredTime > 0
        /\ filteredSpeed > 0) =>
           filteredSpeed' < filteredSpeed]_vars

\* ------------------------------------------------------------------------
\* Properties of the report store's returns
\* ------------------------------------------------------------------------

\* what addCommunityReport returns (community_reports.js 36-41): null when
\* the save failed, else the report with its id, timestamp and status
addCommunityReportResult(report, now, ok) ==
    IF ok
    THEN [ id |-> now, timestamp |-> now, status |-> "pending",
           street |-> report.street, featureIds |-> report.featureIds,
           decodedHours |-> NullObj ]
    ELSE NullObj

\* what updateCommunityReport returns (community_reports.js 46-51): null
\* for an id that is not stored, else the report with the updates assigned
updateCommunityReportResult(id, updates) ==
    IF \A i \in 1..Len(storage) : storage[i].id # id
    THEN NullObj
    ELSE LET idx == CHOOSE i \in 1..Len(storage) : storage[i].id = id
         IN  [storage[idx] EXCEPT !.status = updates.status,
                                  !.decodedHours = updates.decodedHours,
                                  !.featureIds = updates.featureIds]

\* the report store called on its own: each call and what it returned
AddReportCall(report, now, ok) ==
    /\ addCommunityReport(report, now, ok)
    /\ call' = [fn |-> "addCommunityReport",
                returned |-> addCommunityReportResult(report, now, ok)]

UpdateReportCall(id, updates, ok) ==
    /\ updateCommunityReport(id, updates, ok)
    /\ call' = [fn |-> "updateCommunityReport",
                returned |-> updateCommunityReportResult(id, updates)]

DeleteReportCall(id, ok) ==
    /\ deleteCommunityReport(id, ok)
    /\ call' = [fn |-> "deleteCommunityReport", returned |-> NullObj]

NextStore ==
    \/ \E report \in AddedReports, now \in Stamps, ok \in BOOLEAN :
          AddReportCall(report, now, ok)
    \/ \E id \in Stamps, ok \in BOOLEAN, updates \in AllDecodeUpdates :
          UpdateReportCall(id, updates, ok)
    \/ \E id \in Stamps, ok \in BOOLEAN : DeleteReportCall(id, ok)

SpecStore == Init /\ [][NextStore]_vars

\* C28: a call of addCommunityReport that returns null leaves the stored
\* reports and the override maps as they were; so does a call of
\* updateCommunityReport that returns null; and a report that
\* updateCommunityReport returns is a stored report after the call.
C28_SaveFailureIsAtomic ==
    [][/\ (call'.fn = "addCommunityReport" /\ call'.returned = NullObj) =>
             UNCHANGED <<storage, SIGN_OVERRIDES, SIGN_OVERRIDES_BY_OID>>
       /\ (call'.fn = "updateCommunityReport" /\ call'.returned = NullObj) =>
             UNCHANGED <<storage, SIGN_OVERRIDES, SIGN_OVERRIDES_BY_OID>>
       /\ (call'.fn = "updateCommunityReport" /\ call'.returned # NullObj) =>
             \E i \in 1..Len(storage') : storage'[i] = call'.returned
      ]_vars

\* the stored street-level reports, decoded, whose street normalizes to the
\* segment's normalized name or to its alias
SpellingsOf(feature) ==
    {i \in 1..Len(storage) :
        /\ Qualifies(storage[i])
        /\ Len(storage[i].featureIds) = 0
        /\ trim(storage[i].street) # <<>>
        /\ normalizeStreet(trim(storage[i].street))
              \in {normalizeStreet(feature.street_name),
                   aliasOf(normalizeStreet(feature.street_name))}}

\* C29: for a segment with a street name and no override by oid, when
\* decoded street-level reports exist whose streets normalize to the
\* segment's normalized name or its alias, getSignOverride returns the
\* override built from the one submitted last.
C29_LatestAcrossSpellings ==
    (/\ call.fn = "getSignOverride"
     /\ call.feature.oid \notin DOMAIN SIGN_OVERRIDES_BY_OID
     /\ ~StrFalsy(call.feature.street_name)
     /\ SpellingsOf(call.feature) # {}) =>
        /\ call.override # NullObj
        /\ BuiltFrom(call.override, Latest(SpellingsOf(call.feature)))

\* ------------------------------------------------------------------------
\* The driving simulator's phases (app.js 2490-2618, 3022-3338)
\* ------------------------------------------------------------------------

\* what no simulator handler writes
simFrame ==
    UNCHANGED <<storage, SIGN_OVERRIDES, SIGN_OVERRIDES_BY_OID, clock,
                renderedAt, laneStatus, call, camVars, gpsVars,
                currentHeading, currentSegment, alerts, allFeatures, spoken,
                loadVars>>

\* enterSimPlanning (lines 2524-2550)
enterSimPlanning ==
    /\ simPlanning' = TRUE
    /\ simPlaying' = FALSE
    /\ simStartBtn' = TRUE
    /\ simMapClickHandler' = TRUE

\* stopSimPlayback (lines 3264-3274)
stopSimPlayback ==
    /\ simPlaying' = FALSE
    /\ simAnimFrame' = FALSE

\* exitSimulator (lines 2593-2618)
exitSimulator ==
    /\ stopSimPlayback
    /\ simActive' = FALSE
    /\ simPlanning' = FALSE
    /\ simRoute' = <<>>
    /\ simMapClickHandler' = FALSE
    /\ UNCHANGED <<simStartBtn, simTimers, voiceEnabled, alertCooldowns>>

\* toggleSimulator (lines 2507-2519), the click on btnSimulator
ToggleSimulator ==
    /\ IF ~simActive
       THEN /\ simActive' = TRUE
            /\ enterSimPlanning
            /\ UNCHANGED <<simRoute, simAnimFrame, simTimers, voiceEnabled,
                           alertCooldowns>>
       ELSE exitSimulator
    /\ simFrame

\* the click on simClose (lines 3328-3331), a button of the open panel
CloseSimulator ==
    /\ simActive
    /\ exitSimulator
    /\ simFrame

\* the items a click adds: a waypoint, or the segment clicked
Waypoint == [type |-> "waypoint"]

RouteSegment(oid) == [type |-> "segment", oid |-> oid]

\* the length of the routes followed
MaxRoute == 2

\* onSimMapClick (lines 2625-2666), called by the registered handler: a
\* click away from every lane (oid is NullNum) or near the lane `oid`
OnSimMapClick(oid) ==
    /\ simMapClickHandler
    /\ Len(simRoute) < MaxRoute
    /\ simRoute' =
          IF ~simPlanning THEN simRoute
          ELSE IF oid = NullNum THEN Append(simRoute, Waypoint)
          ELSE IF \E i \in 1..Len(simRoute) : simRoute[i] = RouteSegment(oid)
          THEN simRoute
          ELSE Append(simRoute, RouteSegment(oid))
    /\ UNCHANGED <<simActive, simPlanning, simPlaying, simAnimFrame,
                   simMapClickHandler, simStartBtn, simTimers, voiceEnabled,
                   alertCooldowns>>
    /\ simFrame

\* simRemoveSegment (lines 2734-2739), a button of the route list while
\* planning
SimRemoveSegment(idx) ==
    /\ simActive /\ simPlanning
    /\ idx \in 1..Len(simRoute)
    /\ simRoute' = SubSeq(simRoute, 1, idx - 1) \o SubSeq(simRoute, idx + 1, Len(simRoute))
    /\ UNCHANGED <<simActive, simPlanning, simPlaying, simAnimFrame,
                   simMapClickHandler, simStartBtn, simTimers, voiceEnabled,
                   alertCooldowns>>
    /\ simFrame

\* startSimPlayback (lines 3022-3075), the click on simStartBtn
StartSimPlayback ==
    /\ simActive /\ simStartBtn
    /\ IF Len(simRoute) = 0
       THEN UNCHANGED <<simVars, voiceEnabled, alertCooldowns>>
       ELSE /\ simPlanning' = FALSE
            /\ simPlaying' = TRUE
            /\ simStartBtn' = FALSE
            /\ simMapClickHandler' = FALSE
            /\ voiceEnabled' = TRUE
            /\ alertCooldowns' = <<>>
            /\ simAnimFrame' = TRUE
            /\ UNCHANGED <<simActive, simRoute, simTimers>>
    /\ simFrame

\* the click on simStopBtn (lines 3333-3336)
StopSimButton ==
    /\ simActive /\ ~simStartBtn
    /\ simAnimFrame' = FALSE
    /\ enterSimPlanning
    /\ UNCHANGED <<simActive, simRoute, simTimers, voiceEnabled, alertCooldowns>>
    /\ simFrame

\* clearSimRoute (lines 3294-3307), the click on simClearBtn
ClearSimRoute ==
    /\ simActive
    /\ simAnimFrame' = FALSE
    /\ simRoute' = <<>>
    /\ enterSimPlanning
    /\ UNCHANGED <<simActive, simTimers, voiceEnabled, alertCooldowns>>
    /\ simFrame

\* the return-to-planning timers followed at a time
MaxTimers == 2

\* simAnimationStep (lines 3080-3123) on a requested frame: the car has
\* reached the end of the path (finishSimPlayback, lines 3279-3289) or not
SimAnimationStep(atEnd) ==
    /\ simAnimFrame
    /\ atEnd => simTimers < MaxTimers
    /\ IF ~simPlaying
       THEN /\ simAnimFrame' = FALSE
            /\ UNCHANGED <<simPlaying, simTimers>>
       ELSE IF atEnd
       THEN /\ stopSimPlayback
            /\ simTimers' = simTimers + 1
       ELSE /\ simAnimFrame' = TRUE
            /\ UNCHANGED <<simPlaying, simTimers>>
    /\ UNCHANGED <<simActive, simPlanning, simRoute, simMapClickHandler,
                   simStartBtn, voiceEnabled, alertCooldowns>>
    /\ simFrame

\* the timer of finishSimPlayback fires (lines 3286-3288)
PlanningTimer ==
    /\ simTimers > 0
    /\ simTimers' = simTimers - 1
    /\ enterSimPlanning
    /\ UNCHANGED <<simActive, simRoute, simAnimFrame, voiceEnabled, alertCooldowns>>
    /\ simFrame

\* the lanes a click of the simulator can be near
ClickedOids == {NullNum, 201, 202}

NextSim ==
    \/ ToggleSimulator
    \/ CloseSimulator
    \/ \E oid \in ClickedOids : OnSimMapClick(oid)
    \/ \E idx \in 1..MaxRoute : SimRemoveSegment(idx)
    \/ StartSimPlayback
    \/ StopSimButton
    \/ ClearSimRoute
    \/ \E atEnd \in BOOLEAN : SimAnimationStep(atEnd)
    \/ PlanningTimer

SpecSim == Init /\ [][NextSim]_vars

\* C30: in every state of the simulator, simPlanning implies simActive,
\* simPlaying implies simActive, simPlanning and simPlaying are not both
\* true, and the map click handler is registered only while simPlanning.
C30_PhaseInvariant ==
    /\ simPlanning => simActive
    /\ simPlaying => simActive
    /\ ~(simPlanning /\ simPlaying)
    /\ simMapClickHandler => simPlanning

\* ------------------------------------------------------------------------
\* Driving: the samples of the position with the lanes and the cameras
\* fetched, the voice button and the simulator's start and stop
\* ------------------------------------------------------------------------

\* a camera of the feed at a latitude, with its distances to the lanes of
\* the feed in metres
DriveCamera(id, status, ms_atar, lat, feed) ==
    [OBJECTID |-> id, t_rechov1 |-> IbnGabirol, ms_bayit1 |-> NullNum,
     located |-> TRUE, status |-> status, ms_atar |-> ms_atar, lat |-> lat,
     dist |-> [oid \in LaneOids |->
                  LET at == {i \in 1..Len(feed) :
                                feed[i].attributes.oid = oid /\ hasPaths(feed[i])}
                  IN  IF at = {} THEN Infinity
                      ELSE distanceToPolyline(lat,
                               feed[CHOOSE i \in at : TRUE].geometry.paths) \div 100]]

\* the cameras of the street: 9 m and 1 m north of the south end of the
\* block, 100 m north of the north end, and one out of service
CameraA == [id |-> 1, status |-> ACTIVE, ms_atar |-> NullNum, lat |-> 9900]

CameraB == [id |-> 2, status |-> NullStr, ms_atar |-> 77, lat |-> 9100]

CameraC == [id |-> 3, status |-> ACTIVE, ms_atar |-> NullNum, lat |-> 20000]

CameraE == [id |-> 4, status |-> INACTIVE, ms_atar |-> NullNum, lat |-> 9000]

camerasOver(feed, cams) ==
    [k \in 1..Len(cams) |->
        DriveCamera(cams[k].id, cams[k].status, cams[k].ms_atar, cams[k].lat, feed)]

\* allFeatures and allCameras: nothing fetched; the lanes and the cameras,
\* in two orders; the lanes with the geometry of the lane after the
\* junction malformed
DriveWorlds ==
    { <<<<>>, <<>>>>,
      <<DriveLanes, camerasOver(DriveLanes, <<CameraA, CameraB, CameraC>>)>>,
      <<DriveLanes, camerasOver(DriveLanes, <<CameraE, CameraC, CameraB>>)>> }
    \cup { <<withGeometry(203, g),
             camerasOver(withGeometry(203, g), <<CameraA, CameraB, CameraC>>)>> :
             g \in Malformed }

\* Sunday 07:00, in ms from the start of a Sunday
SundaySeven == 7 * 3600000

\* ------------------------------------------------------------------------
\* Loading the feeds  (app.js 341-428, 3344-3425)
\* ------------------------------------------------------------------------

\* the number of features the server gives in answer to one query
PageSize == 2

\* the lanes and the cameras the server holds
ServerLanes == DriveLanes

ServerCameras == <<CameraA, CameraB, CameraC>>

\* data of the response to the query at an offset: features and
\* exceededTransferLimit
pageAt(feed, offset) ==
    [features |-> SubSeq(feed, offset + 1, Min(offset + PageSize, Len(feed))),
     exceededTransferLimit |-> offset + PageSize < Len(feed)]

\* what ends a query in the catch of lines 374 and 421: response.ok false,
\* data.error, and fetch rejecting
Failures == {"http", "payload", "network"}

\* lines 364-371 and 411-417: a response taken into the loop
received(fetch, data) ==
    IF Len(data.features) > 0
    THEN [features |-> fetch.features \o data.features,
          offset   |-> fetch.offset + Len(data.features),
          hasMore  |-> data.exceededTransferLimit,
          error    |-> "none"]
    ELSE [fetch EXCEPT !.hasMore = FALSE]

\* lines 374-377 and 421-424: the error is logged and the loop ends
caught(fetch, error) ==
    [fetch EXCEPT !.hasMore = FALSE, !.error = error]

\* one turn of the loop of a fetch over a feed
turn(fetch, feed, outcome) ==
    IF outcome = "ok" THEN received(fetch, pageAt(feed, fetch.offset))
    ELSE caught(fetch, outcome)

\* the junction feed (layer 547) is taken to hold no junction on the lanes
ServerJunctions == <<>>

\* splitFeaturesAtJunctions over that feed: with no junction to split at,
\* the lanes as fetched
splitFeaturesAtJunctions(lanes, junctions) == lanes

\* createCameraPopupContent (lines 712-794) over a value of cameraSegmentMap:
\* the segments shown, the badge, and whether the report button is there
popupContent(feature, map) ==
    LET mapping == IF feature.OBJECTID \in DOMAIN map
                   THEN map[feature.OBJECTID] ELSE NullObj
    IN  IF mapping # NullObj /\ Len(mapping.segments) > 0
        THEN [assigned  |-> TRUE,
              segments  |-> mapping.segments,
              badge     |-> IF mapping.bidirectional THEN "bidirectional"
                            ELSE "classified",
              reportBtn |-> mapping.bidirectional]
        ELSE [assigned  |-> FALSE,
              segments  |-> <<>>,
              badge     |-> "none",
              reportBtn |-> mapping # NullObj /\ mapping.bidirectional]

createCameraPopupContent(feature) == popupContent(feature, cameraSegmentMap)

\* renderCameras (lines 799-819) over a value of cameraSegmentMap: the
\* popup bound to the marker of each camera that has a location
popupsOver(cameras, map) ==
    [id \in {cameras[k].OBJECTID : k \in {j \in 1..Len(cameras) : cameras[j].located}}
        |-> popupContent(cameras[CHOOSE k \in 1..Len(cameras) :
                                    cameras[k].OBJECTID = id], map)]

renderCameras(cameras) == popupsOver(cameras, cameraSegmentMap)

\* renderLanes (lines 611-622) over the lanes fetched: the status of each
\* lane that has paths
renderFetched(features, now) ==
    [oid \in {features[i].attributes.oid :
                 i \in {k \in 1..Len(features) : hasPaths(features[k])}}
        |-> driveLaneStatus(features[CHOOSE i \in 1..Len(features) :
                                        features[i].attributes.oid = oid], now)]

\* a turn of the loop of fetchAllFeatures (lines 347-378)
FetchFeaturesPage(outcome) ==
    /\ loading.pc = "fetching"
    /\ loading.lanes.hasMore
    /\ loading' = [loading EXCEPT !.lanes = turn(@, ServerLanes, outcome)]
    /\ UNCHANGED <<storage, SIGN_OVERRIDES, SIGN_OVERRIDES_BY_OID, clock,
                   renderedAt, laneStatus, call, camVars, gpsVars, driveVars,
                   simVars, allRawFeatures, cameraPopups>>

\* a turn of the loop of fetchAllCameras (lines 392-425)
FetchCamerasPage(outcome) ==
    /\ loading.pc = "fetching"
    /\ loading.cameras.hasMore
    /\ loading' = [loading EXCEPT !.cameras = turn(@, ServerCameras, outcome)]
    /\ UNCHANGED <<storage, SIGN_OVERRIDES, SIGN_OVERRIDES_BY_OID, clock,
                   renderedAt, laneStatus, call, camVars, gpsVars, driveVars,
                   simVars, allRawFeatures, cameraPopups>>

\* init from the end of Promise.all on (lines 3371-3418), with `now` the
\* reading of new Date(): the collections, the first render of the lanes
\* and of the cameras, the index
InitLoaded(now) ==
    /\ loading.pc = "fetching"
    /\ ~loading.lanes.hasMore
    /\ ~loading.cameras.hasMore
    /\ allRawFeatures' = loading.lanes.features
    /\ allFeatures' = splitFeaturesAtJunctions(loading.lanes.features,
                                               ServerJunctions)
    /\ allCameras' = camerasOver(allFeatures', loading.cameras.features)
    /\ IF Len(allFeatures') = 0 /\ Len(allCameras') = 0
       THEN /\ loading' = [loading EXCEPT !.pc = "no data"]
            /\ UNCHANGED <<renderedAt, laneStatus, cameraPopups,
                           cameraSegmentMap>>
       ELSE /\ loading' = [loading EXCEPT !.pc = "done"]
            /\ renderedAt' = dateOf(now)
            /\ laneStatus' = renderFetched(allFeatures', dateOf(now))
            /\ cameraPopups' = popupsOver(allCameras', cameraSegmentMap)
            /\ cameraSegmentMap' =
                  IF Len(allFeatures') = 0 THEN <<>>
                  ELSE buildCameraSegmentIndex(allCameras')
    /\ UNCHANGED <<storage, SIGN_OVERRIDES, SIGN_OVERRIDES_BY_OID, clock, call,
                   gpsVars, currentHeading, currentSegment, voiceEnabled,
                   alertCooldowns, alerts, spoken, simVars>>

\* new Date() when the fetches end: Sunday 06:59 and 07:00
LoadTimes == {SundaySeven - 60000, SundaySeven}

NextLoad ==
    \/ \E outcome \in {"ok"} \cup Failures : FetchFeaturesPage(outcome)
    \/ \E outcome \in {"ok"} \cup Failures : FetchCamerasPage(outcome)
    \/ \E now \in LoadTimes : InitLoaded(now)

SpecLoad == Init /\ [][NextLoad]_vars

\* the state after init (app.js 3344-3418) has fetched the feeds and built
\* the index, the simulator opened and a point of the map clicked
InitDrive ==
    /\ storage = <<>>
    /\ SIGN_OVERRIDES = <<>>
    /\ SIGN_OVERRIDES_BY_OID = <<>>
    /\ clock = 0
    /\ renderedAt = NoDate
    /\ laneStatus = <<>>
    /\ call = NoCall
    /\ \E world \in DriveWorlds :
          /\ allFeatures = world[1]
          /\ allCameras = world[2]
    /\ cameraSegmentMap =
          IF Len(allFeatures) = 0 THEN <<>>
          ELSE buildCameraSegmentIndex(allCameras)
    /\ filteredLat = NullNum
    /\ filteredLng = NullNum
    /\ filteredSpeed = 0
    /\ filteredBearing = NullNum
    /\ lastFilteredTime = 0
    /\ prevFilteredLat = NullNum
    /\ prevFilteredLng = NullNum
    /\ currentHeading = NullNum
    /\ currentSegment = NullNum
    /\ voiceEnabled = FALSE
    /\ alertCooldowns = <<>>
    /\ alerts = <<>>
    /\ spoken = <<>>
    /\ simActive = TRUE
    /\ simPlanning = TRUE
    /\ simPlaying = FALSE
    /\ simRoute = <<Waypoint>>
    /\ simAnimFrame = FALSE
    /\ simMapClickHandler = TRUE
    /\ simStartBtn = TRUE
    /\ simTimers = 0
    /\ allRawFeatures = allFeatures
    /\ loading = [pc |-> "done"]
    /\ cameraPopups = popupsOver(allCameras, <<>>)

\* toggleVoice (lines 1665-1681)
ToggleVoice ==
    /\ voiceEnabled' = ~voiceEnabled
    /\ UNCHANGED <<storage, SIGN_OVERRIDES, SIGN_OVERRIDES_BY_OID, clock,
                   renderedAt, laneStatus, call, camVars, gpsVars,
                   currentHeading, currentSegment, alertCooldowns, alerts,
                   allFeatures, spoken, simVars, loadVars>>

\* pos.coords.latitude: far south of the lanes, at the south end of the
\* block, and on the next block
DriveLats == {0, 9000, 10000}

\* Date.now(): Sunday 06:59, 07:00:00, 07:00:01 and 07:05:00
DriveTimes ==
    {SundaySeven - 60000, SundaySeven, SundaySeven + 1000,
     SundaySeven + ALERT_COOLDOWN_MS}

\* the number of samples followed with the lanes and the cameras fetched
MaxDriveSamples == 2

\* the clock has not been set back since the last sample and the last alert
notBefore(now) ==
    /\ now >= lastFilteredTime
    /\ \A key \in DOMAIN alertCooldowns : now >= alertCooldowns[key]
    /\ \A oid \in DOMAIN spoken : now >= spoken[oid]

NextDrive ==
    \/ /\ call # NoCall => call.samples < MaxDriveSamples
       /\ \E rawLat \in DriveLats : \E now \in {t \in DriveTimes : notBefore(t)} :
             OnGpsPosition(rawLat, Meridian, 5, now)
    \/ StopGps
    \/ ToggleVoice
    \/ StartSimPlayback
    \/ StopSimButton

SpecDrive == InitDrive /\ [][NextDrive]_vars

\* ------------------------------------------------------------------------
\* Properties of the heading and the driving alerts
\* ------------------------------------------------------------------------

\* onGpsPosition has processed a sample in this step
Sampled == call'.fn = "onGpsPosition" /\ call' # call

\* the places in allFeatures of the one-way lanes nearer than 30 m to pos
OneWayWithin(pos) ==
    {i \in 1..Len(allFeatures) :
        /\ hasPaths(allFeatures[i])
        /\ allFeatures[i].attributes.direction_name # ""
        /\ distanceToPolyline(pos, allFeatures[i].geometry.paths) < LANE_HEADING_RADIUS}

\* C21: after a sample is processed, currentHeading is the compass bearing
\* of a nearest one-way lane within 30 m of the filtered position if there
\* is one; otherwise filteredBearing if it is not null and filteredSpeed is
\* at least GPS_MIN_SPEED_FOR_HEADING; otherwise what it was before.
C21_HeadingResolutionOrder ==
    [][Sampled =>
         IF OneWayWithin(filteredLat') # {}
         THEN \E i \in OneWayWithin(filteredLat') :
                 /\ \A j \in OneWayWithin(filteredLat') :
                       distanceToPolyline(filteredLat', allFeatures[i].geometry.paths)
                         <= distanceToPolyline(filteredLat', allFeatures[j].geometry.paths)
                 /\ currentHeading' = dirMap(allFeatures[i].attributes.direction_name)
         ELSE IF filteredBearing' # NullNum
                    /\ filteredSpeed' >= GPS_MIN_SPEED_FOR_HEADING
         THEN currentHeading' = filteredBearing'
         ELSE currentHeading' = currentHeading]_vars

\* the heading of the southbound lane is kept after a slow move to a place
\* with a two-way lane and no one-way lane within 30 m
C21_Witness ==
    /\ call.fn = "onGpsPosition"
    /\ call.samples = 2
    /\ Len(allFeatures) > 0
    /\ OneWayWithin(filteredLat) = {}
    /\ filteredBearing = NullNum
    /\ currentHeading = 18000

\* the lane of allFeatures with the oid is blocked when Date.now() is nowMs
BlockedAt(oid, nowMs) ==
    \E i \in 1..Len(allFeatures) :
        /\ allFeatures[i].attributes.oid = oid
        /\ driveLaneStatus(allFeatures[i], dateOf(nowMs)).blocked

\* C22 as stated: whatever was done in between, a blocked-lane alert comes
\* at least ALERT_COOLDOWN_MS after the last alert of the same lane, and
\* only for a lane whose status is blocked.
C22_LaneAlertCooldown ==
    [][Sampled =>
         \A i \in 1..Len(alerts') :
            alerts'[i].type = "lane" =>
               /\ alerts'[i].id \in DOMAIN spoken =>
                     call'.now - spoken[alerts'[i].id] >= ALERT_COOLDOWN_MS
               /\ BlockedAt(alerts'[i].id, call'.now)]_vars

\* C22 amended: a blocked-lane alert comes at least ALERT_COOLDOWN_MS after
\* the last alert of the same lane unless startSimPlayback has emptied
\* alertCooldowns since (the key of the lane is no longer there), and only
\* for a lane whose status is blocked.
C22_CooldownUnlessSimulatorStarted ==
    [][Sampled =>
         \A i \in 1..Len(alerts') :
            alerts'[i].type = "lane" =>
               /\ (/\ alerts'[i].id \in DOMAIN spoken
                   /\ LaneKey(alerts'[i].id) \in DOMAIN alertCooldowns) =>
                     call'.now - spoken[alerts'[i].id] >= ALERT_COOLDOWN_MS
               /\ BlockedAt(alerts'[i].id, call'.now)]_vars

\* a second sample on the blocked southbound lane one second after its
\* alert: no lane alert is spoken
C22_Witness ==
    /\ voiceEnabled
    /\ call.fn = "onGpsPosition"
    /\ call.samples = 2
    /\ call.now = SundaySeven + 1000
    /\ currentSegment = 202
    /\ BlockedAt(202, call.now)
    /\ LaneKey(202) \in DOMAIN alertCooldowns
    /\ alertCooldowns[LaneKey(202)] = SundaySeven
    /\ \A i \in 1..Len(alerts) : alerts[i].type # "lane"

\* the oids of the segment driven on at pos and of the segment after it
CandidateOids(pos, bearing) ==
    LET segment == findCurrentSegment(pos, bearing)
        nextSeg == findNextSegment(segment)
    IN  IF Len(allFeatures) = 0 \/ segment = NullObj THEN {}
        ELSE {segment.feature.attributes.oid} \cup
                IF nextSeg.threw \/ nextSeg.next = 0 THEN {}
                ELSE {allFeatures[nextSeg.next].attributes.oid}

\* the places in allCameras of the cameras in service, assigned to a
\* candidate segment, within 100 m of pos, with no alert under their key in
\* the last ALERT_COOLDOWN_MS
CamerasDue(pos, bearing, nowMs) ==
    {k \in 1..Len(allCameras) :
        /\ allCameras[k].located
        /\ allCameras[k].status \in {NullStr, <<>>, ACTIVE}
        /\ allCameras[k].OBJECTID \in DOMAIN cameraSegmentMap
        /\ \E i \in 1..Len(cameraSegmentMap[allCameras[k].OBJECTID].segments) :
              cameraSegmentMap[allCameras[k].OBJECTID].segments[i]
                  \in CandidateOids(pos, bearing)
        /\ Abs(pos - allCameras[k].lat) <= CAMERA_ALERT_RADIUS
        /\ \/ CamKey(allCameras[k]) \notin DOMAIN alertCooldowns
           \/ nowMs - alertCooldowns[CamKey(allCameras[k])] >= ALERT_COOLDOWN_MS}

\* the alerts of a type among those of a call
OfType(spokenNow, type) ==
    {i \in 1..Len(spokenNow) : spokenNow[i].type = type}

C24_NearestCameraAlerted ==
    [][(Sampled /\ voiceEnabled) =>
         \A i \in OfType(alerts', "camera") :
            \A k \in CamerasDue(filteredLat', filteredBearing', call'.now) :
               alerts'[i].dist <= Abs(filteredLat' - allCameras[k].lat)]_vars

\* C24 amended: the camera alerted is the first of them in allCameras.
C24_FirstCameraOfFeedAlerted ==
    [][(Sampled /\ voiceEnabled) =>
         \A i \in OfType(alerts', "camera") :
            \E k \in CamerasDue(filteredLat', filteredBearing', call'.now) :
               /\ allCameras[k].OBJECTID = alerts'[i].id
               /\ \A j \in CamerasDue(filteredLat', filteredBearing', call'.now) :
                     k <= j]_vars

\* the camera 9 m away was alerted, the first of the feed; the camera 1 m
\* away, on the same segments, has not been alerted yet
C24_Witness ==
    /\ call.fn = "onGpsPosition"
    /\ filteredLat = 9000
    /\ \E i \in OfType(alerts, "camera") : alerts[i].id = 1 /\ alerts[i].dist = 900
    /\ Len(allCameras) = 3
    /\ allCameras[2].OBJECTID = 2
    /\ Abs(filteredLat - allCameras[2].lat) = 100
    /\ cameraSegmentMap[2].segments = <<201, 202>>
    /\ currentSegment = 202
    /\ CamKey(allCameras[2]) \notin DOMAIN alertCooldowns

\* a lane whose geometry has nothing to measure: no geometry, no paths, no
\* path, or a path without a point
isMalformed(feature) ==
    \/ ~hasPaths(feature)
    \/ Len(feature.geometry.paths) = 0
    \/ \E i \in 1..Len(feature.geometry.paths) :
          Len(feature.geometry.paths[i]) = 0

\* the oids of the malformed lanes of the feed
MalformedOids ==
    {allFeatures[i].attributes.oid : i \in {k \in 1..Len(allFeatures) :
                                              isMalformed(allFeatures[k])}}

\* C26: with malformed lanes in the feed, the tracker of the position
\* completes every sample without throwing, no malformed lane is the
\* segment driven on, and none is assigned to a camera.
C26_MalformedGeometrySkipped ==
    /\ call.fn = "onGpsPosition" => ~call.threw
    /\ currentSegment \notin MalformedOids
    /\ \A id \in DOMAIN cameraSegmentMap :
          \A i \in 1..Len(cameraSegmentMap[id].segments) :
             cameraSegmentMap[id].segments[i] \notin MalformedOids

\* C25: when a query of the lane fetch has failed, init leaves allRawFeatures
\* and allFeatures as they were before the fetch, and when a query of the
\* camera fetch has failed it leaves allCameras so: the pages received
\* before the failure are not installed.
C25_FailedFetchKeepsSnapshot ==
    [][(loading.pc = "fetching" /\ loading'.pc # "fetching") =>
         /\ loading.lanes.error # "none" =>
               UNCHANGED <<allRawFeatures, allFeatures>>
         /\ loading.cameras.error # "none" => UNCHANGED allCameras]_vars

\* C27: once init has completed, the popup of every camera that has an
\* entry in cameraSegmentMap shows the segments of the entry, and the popup
\* of every camera whose entry is bidirectional has the report button.
C27_PopupShowsAssignment ==
    loading.pc = "done" =>
       \A id \in DOMAIN cameraPopups :
          id \in DOMAIN cameraSegmentMap =>
             /\ cameraPopups[id].assigned
             /\ cameraPopups[id].segments = cameraSegmentMap[id].segments
             /\ cameraSegmentMap[id].bidirectional => cameraPopups[id].reportBtn
====
